---- MODULE Spec2Model ----
(***************************************************************************)
(* Reliable data transfer over an unreliable datagram channel:             *)
(* rdt2.0, rdt2.1, rdt3.0 (fase1), Go-Back-N and Selective Repeat (fase2)  *)
(* and SimpleTCPSocket (fase3), with the packet codec and the unreliable   *)
(* channel (utils).  Each protocol has its own specification over its own  *)
(* variables; the variables of the other protocols stay at their initial   *)
(* values.                                                                 *)
(***************************************************************************)
EXTENDS Integers, Sequences, FiniteSets, Bags, TLC

VARIABLES
    rdt20_sender,    \* RDT20Sender object
    rdt20_receiver,  \* RDT20Receiver object
    rdt20_env,       \* datagrams in flight, messages submitted, sends returned
    rdt21_sender,    \* RDT21Sender object
    rdt21_receiver,  \* RDT21Receiver object
    rdt21_env,       \* datagrams in flight, messages submitted, sends returned
    rdt30_sender,    \* RDT30Sender object
    rdt30_receiver,  \* RDT30Receiver object
    rdt30_env,       \* datagrams in flight, messages submitted, sends returned
    sr_sender,       \* SRSender object
    sr_receiver,     \* SRReceiver object
    sr_env,          \* datagrams in flight, messages submitted
    gbn_sender,      \* GBNSender object and the position of its threads
    gbn_receiver,    \* GBNReceiver object
    gbn_env,         \* datagrams in flight, messages submitted, sends returned
    tcp,             \* the two SimpleTCPSocket objects, by endpoint
    tcp_env          \* segments in flight, bytes submitted, chunks delivered

vars20 == <<rdt20_sender, rdt20_receiver, rdt20_env>>
vars21 == <<rdt21_sender, rdt21_receiver, rdt21_env>>

vars30 == <<rdt30_sender, rdt30_receiver, rdt30_env>>

varsSR == <<sr_sender, sr_receiver, sr_env>>

varsGBN == <<gbn_sender, gbn_receiver, gbn_env>>

varsTCP == <<tcp, tcp_env>>

vars == <<vars20, vars21, vars30, varsSR, varsGBN, varsTCP>>

(***************************************************************************)
(* Bounds of the model.                                                    *)
(***************************************************************************)
\* number of messages the application submits
MaxMsgs == 3
\* number of datagrams the channel corrupts in one run
MaxCorrupt == 2
\* the statistics counters of the protocols with unbounded retransmission
\* stop counting here
MaxCount == 2
\* number of times a wait for an acknowledgment times out in one run
MaxTimeouts == 2
\* largest window size N of a Go-Back-N or Selective Repeat endpoint
MaxWindow == 2
\* copies of one datagram the channel holds at a time; it loses the datagram
\* that is sent while that many copies of it are in flight
MaxInFlight == 2
\* number of send calls on the two TCP sockets in one run
MaxSends == 2
\* number of times a TCP retransmission timer expires in one run
MaxRetransmits == 1
\* number of send calls on the two TCP sockets in a run with close calls
MaxCloseSends == 1

\* DATA packets a sender puts on the channel for a receiver that is run on
\* its own
MaxArrivals == 5

\* messages of a long transfer: one more than the sequence numbers a byte
\* holds
MaxLongMsgs == 257

\* datagrams shorter than the header that reach the rdt2.0 endpoints
MaxStray == 2

\* length of the list of messages sent over the channel without faults
MaxListLen == 4

(***************************************************************************)
(* utils/packet.py: PacketType and RDTPacket.                              *)
(***************************************************************************)
DATA == 0
ACK == 1
NAK == 2

\* b'' (the payload of ACK and NAK packets); a DATA payload is the number
\* (1, 2, ...) of the submitted message it carries
NoData == 0

\* hashlib.md5(content).digest()[:4] over (type, seq_num, data): the digest
\* is taken as collision-free, so it is the content it was computed from
RDTPacket_calculate_checksum(type, seq_num, data) == <<type, seq_num, data>>

RDTPacket(type, seq_num, data) ==
    [type |-> type, seq_num |-> seq_num, data |-> data,
     checksum |-> RDTPacket_calculate_checksum(type, seq_num, data)]

\* the largest value struct.pack takes for the format 'B'
ByteMax == 255

\* RDTPacket(packet_type, seq_num, data) returns a packet: the
\* struct.pack('BB', self.type, self.seq_num) of _calculate_checksum raises
\* struct.error for a value outside 0..255
RDTPacket_fits(type, seq_num) ==
    type \in 0..ByteMax /\ seq_num \in 0..ByteMax

RDTPacket_is_corrupt(p) ==
    p.checksum # RDTPacket_calculate_checksum(p.type, p.seq_num, p.data)

\* what deserialize returns for bytes it does not take
None == [none |-> TRUE]

\* struct.calcsize('BB4s'), the least length RDTPacket.deserialize takes
RDTHeaderSize == 6

\* a byte string is the tuple of the fields packed into it, in their order;
\* BytesLen is its length in bytes for the field widths given, a payload
\* the last field and one unit long when it is there
BytesLen(bytes, widths) ==
    IF Len(bytes) <= Len(widths)
    THEN IF bytes = <<>> THEN 0
         ELSE LET Sum[k \in 0..Len(bytes)] ==
                      IF k = 0 THEN 0 ELSE Sum[k - 1] + widths[k]
              IN  Sum[Len(bytes)]
    ELSE LET Sum[k \in 0..Len(widths)] ==
                 IF k = 0 THEN 0 ELSE Sum[k - 1] + widths[k]
         IN  Sum[Len(widths)] + (Len(bytes) - Len(widths))

\* the field widths of 'BB4s'
RDTWidths == <<1, 1, 4>>

\* struct.pack('BB4s', type, seq_num, checksum) + data
RDTPacket_serialize(p) ==
    <<p.type, p.seq_num, p.checksum>>
        \o (IF p.data = NoData THEN <<>> ELSE <<p.data>>)

\* RDTPacket.deserialize(packet_bytes)
RDTPacket_deserialize(packet_bytes) ==
    IF BytesLen(packet_bytes, RDTWidths) < RDTHeaderSize THEN None
    ELSE [RDTPacket(packet_bytes[1], packet_bytes[2],
                    IF Len(packet_bytes) > Len(RDTWidths)
                    THEN packet_bytes[Len(RDTWidths) + 1] ELSE NoData)
             EXCEPT !.checksum = packet_bytes[3]]

(***************************************************************************)
(* utils/simulator.py: UnreliableChannel.  A datagram is lost or corrupted *)
(* when it is sent and delivered after a random delay; as nothing observes *)
(* a datagram before its delivery, the model decides loss and corruption   *)
(* when the datagram leaves the channel.  Datagrams in flight are a bag:   *)
(* the delays are independent, so any datagram may arrive next.            *)
(***************************************************************************)
\* the byte positions _corrupt_packet may hit, by the field they belong to
CorruptIdx == {"type", "seq_num", "checksum", "data"}

\* packet_list[idx] ^ 0xFF on one byte of field idx (b ^ 0xFF = 255 - b)
UnreliableChannel_corrupt_packet(p, idx) ==
    CASE idx = "type"     -> [p EXCEPT !.type = 255 - p.type]
      [] idx = "seq_num"  -> [p EXCEPT !.seq_num = 255 - p.seq_num]
      [] idx = "checksum" -> [p EXCEPT !.checksum = <<255 - p.checksum[1], p.checksum[2], p.checksum[3]>>]
      [] idx = "data"     -> [p EXCEPT !.data = 0 - p.data]

\* the positions that exist in the serialized packet p
CorruptIdxOf(p) == IF p.data = NoData THEN CorruptIdx \ {"data"} ELSE CorruptIdx

\* channel.send(packet, ...) of a datagram that is not lost
UnreliableChannel_send(bag, p) == bag (+) SetToBag({p})

\* the datagram leaves the channel (socket.recvfrom returns it)
ChannelTake(bag, p) == bag (-) SetToBag({p})

SendAll(bag, out) == bag (+) SetToBag({out[i] : i \in 1..Len(out)})

\* channel.send of the datagrams of out, one after the other, by a channel
\* that holds at most MaxInFlight copies of a datagram
RECURSIVE SendAllBounded(_, _)
SendAllBounded(bag, out) ==
    IF out = <<>> THEN bag
    ELSE SendAllBounded(
             IF CopiesIn(Head(out), bag) < MaxInFlight
             THEN UnreliableChannel_send(bag, Head(out)) ELSE bag,
             Tail(out))

\* counter += 1, for a statistics counter
Bump(n) == IF n < MaxCount THEN n + 1 ELSE n

IsPrefix(s, t) == Len(s) <= Len(t) /\ \A i \in 1..Len(s) : s[i] = t[i]

(***************************************************************************)
(* fase1/rdt20.py                                                          *)
(***************************************************************************)
RDT20Sender_init ==
    [state |-> "WAIT_CALL", packet |-> RDTPacket(DATA, 0, NoData),
     packets_sent |-> 0, retransmissions |-> 0,
     acks_received |-> 0, naks_received |-> 0]

RDT20Receiver_init ==
    [received_messages |-> <<>>, packets_received |-> 0,
     corrupted_packets |-> 0, acks_sent |-> 0, naks_sent |-> 0]

\* one turn of the stop-and-wait loop up to _wait_for_response:
\* state = 'WAIT_ACK', _send_packet(packet), packets_sent += 1
RDT20Sender_transmit(s) ==
    [snd |-> [s EXCEPT !.state = "WAIT_ACK", !.packets_sent = @ + 1],
     out |-> <<s.packet>>]

\* a send that puts its packet on the channel twice
RDT20Sender_send_twice(s, data) ==
    [snd |-> [s EXCEPT !.packet = RDTPacket(DATA, 0, data),
                       !.state = "WAIT_ACK", !.packets_sent = @ + 2],
     out |-> <<RDTPacket(DATA, 0, data), RDTPacket(DATA, 0, data)>>]

\* send(data) up to the first _wait_for_response
RDT20Sender_send(s, data) ==
    RDT20Sender_transmit([s EXCEPT !.packet = RDTPacket(DATA, 0, data)])

\* send(data) from the return of _wait_for_response to the next wait or
\* to the return of send
RDT20Sender_on_response(s, response) ==
    IF RDTPacket_is_corrupt(response)
    THEN RDT20Sender_transmit([s EXCEPT !.retransmissions = @ + 1])
    ELSE IF response.type = ACK
    THEN [snd |-> [s EXCEPT !.acks_received = @ + 1, !.state = "WAIT_CALL"],
          out |-> <<>>]
    ELSE IF response.type = NAK
    THEN RDT20Sender_transmit([s EXCEPT !.naks_received = @ + 1,
                                        !.retransmissions = @ + 1])
    ELSE RDT20Sender_transmit(s)

RDT20Receiver_send_ack(r) ==
    [rcv |-> [r EXCEPT !.acks_sent = @ + 1], out |-> <<RDTPacket(ACK, 0, NoData)>>]

RDT20Receiver_send_nak(r) ==
    [rcv |-> [r EXCEPT !.naks_sent = @ + 1], out |-> <<RDTPacket(NAK, 0, NoData)>>]

\* one turn of _receive_loop on the datagram packet
RDT20Receiver_receive_loop(r, packet) ==
    LET r1 == [r EXCEPT !.packets_received = @ + 1] IN
    IF RDTPacket_is_corrupt(packet)
    THEN RDT20Receiver_send_nak([r1 EXCEPT !.corrupted_packets = @ + 1])
    ELSE RDT20Receiver_send_ack(
             [r1 EXCEPT !.received_messages = Append(@, packet.data)])

Vars20Init ==
    /\ rdt20_sender = RDT20Sender_init
    /\ rdt20_receiver = RDT20Receiver_init
    /\ rdt20_env = [to_receiver |-> EmptyBag, to_sender |-> EmptyBag,
                    submitted |-> <<>>, returned |-> 0, corrupted |-> 0,
                    stray |-> 0, raised |-> FALSE]

\* the rdt2.0 endpoints run alone
Only20 == UNCHANGED <<vars21, vars30, varsSR, varsGBN, varsTCP>>

\* the application calls sender.send(message) with the next message
RDT20_Send ==
    /\ rdt20_sender.state = "WAIT_CALL"
    /\ Len(rdt20_env.submitted) < MaxMsgs
    /\ LET data == Len(rdt20_env.submitted) + 1
           res == RDT20Sender_send(rdt20_sender, data) IN
       /\ rdt20_sender' = res.snd
       /\ rdt20_env' = [rdt20_env EXCEPT
              !.submitted = Append(@, data),
              !.to_receiver = SendAll(@, res.out)]
    /\ UNCHANGED rdt20_receiver
    /\ Only20

\* a datagram reaches the receiver, intact
RDT20_ReceiverGets ==
    \E p \in BagToSet(rdt20_env.to_receiver) :
        LET res == RDT20Receiver_receive_loop(rdt20_receiver, p) IN
        /\ rdt20_receiver' = res.rcv
        /\ rdt20_env' = [rdt20_env EXCEPT
               !.to_receiver = ChannelTake(@, p),
               !.to_sender = SendAll(@, res.out)]
        /\ UNCHANGED rdt20_sender
        /\ Only20

\* a datagram reaches the receiver, corrupted by the channel
RDT20_ReceiverGetsCorrupt ==
    /\ rdt20_env.corrupted < MaxCorrupt
    /\ \E p \in BagToSet(rdt20_env.to_receiver) : \E idx \in CorruptIdxOf(p) :
        LET res == RDT20Receiver_receive_loop(rdt20_receiver,
                       UnreliableChannel_corrupt_packet(p, idx)) IN
        /\ rdt20_receiver' = res.rcv
        /\ rdt20_env' = [rdt20_env EXCEPT
               !.to_receiver = ChannelTake(@, p),
               !.to_sender = SendAll(@, res.out),
               !.corrupted = @ + 1]
        /\ UNCHANGED rdt20_sender
        /\ Only20

\* the response reaches the sender blocked in _wait_for_response
RDT20_SenderGets ==
    /\ rdt20_sender.state = "WAIT_ACK"
    /\ \E p \in BagToSet(rdt20_env.to_sender) :
        LET res == RDT20Sender_on_response(rdt20_sender, p) IN
        /\ rdt20_sender' = res.snd
        /\ rdt20_env' = [rdt20_env EXCEPT
               !.to_sender = ChannelTake(@, p),
               !.to_receiver = SendAll(@, res.out),
               !.returned = IF res.snd.state = "WAIT_CALL" THEN @ + 1 ELSE @]
        /\ UNCHANGED rdt20_receiver
        /\ Only20
    /\ Only20

RDT20_SenderGetsCorrupt ==
    /\ rdt20_sender.state = "WAIT_ACK"
    /\ rdt20_env.corrupted < MaxCorrupt
    /\ \E p \in BagToSet(rdt20_env.to_sender) : \E idx \in CorruptIdxOf(p) :
        LET res == RDT20Sender_on_response(rdt20_sender,
                       UnreliableChannel_corrupt_packet(p, idx)) IN
        /\ rdt20_sender' = res.snd
        /\ rdt20_env' = [rdt20_env EXCEPT
               !.to_sender = ChannelTake(@, p),
               !.to_receiver = SendAll(@, res.out),
               !.corrupted = @ + 1]
        /\ UNCHANGED rdt20_receiver
        /\ Only20
    /\ Only20

\* the application calls sender.send(message) with any of the messages
RDT20_SendAny ==
    /\ rdt20_sender.state = "WAIT_CALL"
    /\ Len(rdt20_env.submitted) < MaxListLen
    /\ \E data \in 1..MaxMsgs :
        LET res == RDT20Sender_send(rdt20_sender, data) IN
        /\ rdt20_sender' = res.snd
        /\ rdt20_env' = [rdt20_env EXCEPT
               !.submitted = Append(@, data),
               !.to_receiver = SendAll(@, res.out)]
    /\ UNCHANGED rdt20_receiver
    /\ Only20

\* the rdt2.0 endpoints over ReliableChannel, which neither loses nor
\* corrupts
Next20Reliable ==
    \/ RDT20_SendAny
    \/ RDT20_ReceiverGets
    \/ RDT20_SenderGets

\* datagrams shorter than the header of 6 bytes: b'', one byte, two bytes
ShortDatagrams == {<<>>, <<ACK>>, <<ACK, 0>>}

\* send(data) from the datagram recvfrom returns in _wait_for_response to
\* the next wait or to the end of send: _wait_for_response returns what
\* deserialize returns, and response.is_corrupt() on None raises
\* AttributeError, which nothing in send catches
RDT20Sender_on_datagram(s, packet_bytes) ==
    LET response == RDTPacket_deserialize(packet_bytes) IN
    IF response = None
    THEN [snd |-> s, out |-> <<>>, raised |-> TRUE]
    ELSE LET res == RDT20Sender_on_response(s, response) IN
         [snd |-> res.snd, out |-> res.out, raised |-> FALSE]

\* one turn of _receive_loop from the datagram recvfrom returns
RDT20Receiver_on_datagram(r, packet_bytes) ==
    LET packet == RDTPacket_deserialize(packet_bytes) IN
    IF packet = None
    THEN [rcv |-> [r EXCEPT !.packets_received = @ + 1], out |-> <<>>]
    ELSE RDT20Receiver_receive_loop(r, packet)

\* a datagram shorter than the header, from any host, reaches the socket
\* of the sender blocked in _wait_for_response
RDT20_SenderGetsShort ==
    /\ rdt20_sender.state = "WAIT_ACK"
    /\ ~rdt20_env.raised
    /\ rdt20_env.stray < MaxStray
    /\ \E packet_bytes \in ShortDatagrams :
        LET res == RDT20Sender_on_datagram(rdt20_sender, packet_bytes) IN
        /\ rdt20_sender' = res.snd
        /\ rdt20_env' = [rdt20_env EXCEPT
               !.to_receiver = SendAll(@, res.out),
               !.stray = @ + 1,
               !.raised = res.raised]
    /\ UNCHANGED rdt20_receiver
    /\ Only20

\* a datagram shorter than the header reaches the socket of the receiver
RDT20_ReceiverGetsShort ==
    /\ rdt20_env.stray < MaxStray
    /\ \E packet_bytes \in ShortDatagrams :
        LET res == RDT20Receiver_on_datagram(rdt20_receiver, packet_bytes) IN
        /\ rdt20_receiver' = res.rcv
        /\ rdt20_env' = [rdt20_env EXCEPT
               !.to_sender = SendAll(@, res.out),
               !.stray = @ + 1]
    /\ UNCHANGED rdt20_sender
    /\ Only20

\* the rdt2.0 endpoints with datagrams shorter than the header arriving
\* from other hosts; a send that raised has left the sender with no thread
\* in recvfrom
Next20Short ==
    \/ RDT20_Send
    \/ RDT20_ReceiverGets
    \/ RDT20_ReceiverGetsCorrupt
    \/ ~rdt20_env.raised /\ RDT20_SenderGets
    \/ ~rdt20_env.raised /\ RDT20_SenderGetsCorrupt
    \/ RDT20_SenderGetsShort
    \/ RDT20_ReceiverGetsShort

Next20 ==
    \/ RDT20_Send
    \/ RDT20_ReceiverGets
    \/ RDT20_ReceiverGetsCorrupt
    \/ RDT20_SenderGets
    \/ RDT20_SenderGetsCorrupt


(***************************************************************************)
(* fase1/rdt21.py                                                          *)
(***************************************************************************)
\* waiting: send() is inside its loop, blocked in _wait_for_response
RDT21Sender_init ==
    [seq_num |-> 0, waiting |-> FALSE, packet |-> RDTPacket(DATA, 0, NoData),
     packets_sent |-> 0, retransmissions |-> 0, acks_received |-> 0,
     duplicated_acks |-> 0, naks_received |-> 0]

RDT21Receiver_init ==
    [expected_seq_num |-> 0, last_ack_sent |-> 1, received_messages |-> <<>>,
     packets_received |-> 0, corrupted_packets |-> 0,
     duplicated_packets |-> 0, acks_sent |-> 0, naks_sent |-> 0]

\* one turn of the loop of send up to _wait_for_response
RDT21Sender_transmit(s) ==
    [snd |-> [s EXCEPT !.waiting = TRUE, !.packets_sent = Bump(@)],
     out |-> <<s.packet>>]

RDT21Sender_send(s, data) ==
    RDT21Sender_transmit([s EXCEPT !.packet = RDTPacket(DATA, s.seq_num, data)])

\* send(data) from the return of _wait_for_response to the next wait or to
\* the return of send
RDT21Sender_on_response(s, response) ==
    IF RDTPacket_is_corrupt(response)
    THEN RDT21Sender_transmit([s EXCEPT !.retransmissions = Bump(@)])
    ELSE IF response.type = ACK
    THEN IF response.seq_num = s.seq_num
         THEN [snd |-> [s EXCEPT !.acks_received = Bump(@),
                                 !.seq_num = 1 - s.seq_num,
                                 !.waiting = FALSE],
               out |-> <<>>]
         ELSE RDT21Sender_transmit([s EXCEPT !.duplicated_acks = Bump(@),
                                             !.retransmissions = Bump(@)])
    ELSE IF response.type = NAK
    THEN IF response.seq_num = s.seq_num
         THEN RDT21Sender_transmit([s EXCEPT !.naks_received = Bump(@),
                                             !.retransmissions = Bump(@)])
         ELSE RDT21Sender_transmit(s)
    ELSE RDT21Sender_transmit(s)

RDT21Receiver_send_ack(r, seq_num) ==
    [rcv |-> [r EXCEPT !.acks_sent = Bump(@)],
     out |-> <<RDTPacket(ACK, seq_num, NoData)>>]

RDT21Receiver_send_nak(r, seq_num) ==
    [rcv |-> [r EXCEPT !.naks_sent = Bump(@)],
     out |-> <<RDTPacket(NAK, seq_num, NoData)>>]

\* the receiver without the sequence number test: every intact packet is
\* delivered and acknowledged
RDT21Receiver_receive_loop_no_seq_test(r, packet) ==
    LET r1 == [r EXCEPT !.packets_received = Bump(@)] IN
    IF RDTPacket_is_corrupt(packet)
    THEN RDT21Receiver_send_nak([r1 EXCEPT !.corrupted_packets = Bump(@)],
                                r1.last_ack_sent)
    ELSE LET a == RDT21Receiver_send_ack(
                      [r1 EXCEPT !.received_messages = Append(@, packet.data)],
                      packet.seq_num) IN
         [rcv |-> [a.rcv EXCEPT !.last_ack_sent = packet.seq_num,
                                !.expected_seq_num = 1 - packet.seq_num],
          out |-> a.out]

\* one turn of _receive_loop on the datagram packet
RDT21Receiver_receive_loop(r, packet) ==
    LET r1 == [r EXCEPT !.packets_received = Bump(@)] IN
    IF RDTPacket_is_corrupt(packet)
    THEN RDT21Receiver_send_nak([r1 EXCEPT !.corrupted_packets = Bump(@)],
                                r1.last_ack_sent)
    ELSE IF packet.seq_num = r1.expected_seq_num
    THEN LET a == RDT21Receiver_send_ack(
                      [r1 EXCEPT !.received_messages = Append(@, packet.data)],
                      r1.expected_seq_num) IN
         [rcv |-> [a.rcv EXCEPT !.last_ack_sent = r1.expected_seq_num,
                                !.expected_seq_num = 1 - r1.expected_seq_num],
          out |-> a.out]
    ELSE RDT21Receiver_send_nak([r1 EXCEPT !.duplicated_packets = Bump(@)],
                                r1.last_ack_sent)

Vars21Init ==
    /\ rdt21_sender = RDT21Sender_init
    /\ rdt21_receiver = RDT21Receiver_init
    /\ rdt21_env = [to_receiver |-> EmptyBag, to_sender |-> EmptyBag,
                    submitted |-> <<>>, returned |-> 0]

\* the rdt2.1 endpoints run alone
Only21 == UNCHANGED <<vars20, vars30, varsSR, varsGBN, varsTCP>>

\* the application calls sender.send(message) with the next message
RDT21_Send ==
    /\ ~rdt21_sender.waiting
    /\ Len(rdt21_env.submitted) < MaxMsgs
    /\ LET data == Len(rdt21_env.submitted) + 1
           res == RDT21Sender_send(rdt21_sender, data) IN
       /\ rdt21_sender' = res.snd
       /\ rdt21_env' = [rdt21_env EXCEPT
              !.submitted = Append(@, data),
              !.to_receiver = SendAll(@, res.out)]
    /\ UNCHANGED rdt21_receiver
    /\ Only21

\* the receiver's turn of _receive_loop on the datagram pkt, sent as p
RDT21_ReceiverTurn(p, pkt) ==
    LET res == RDT21Receiver_receive_loop(rdt21_receiver, pkt) IN
    /\ rdt21_receiver' = res.rcv
    /\ rdt21_env' = [rdt21_env EXCEPT
           !.to_receiver = ChannelTake(@, p),
           !.to_sender = SendAll(@, res.out)]
    /\ UNCHANGED rdt21_sender
    /\ Only21

\* the sender's send() resumes with the response pkt, sent as p
RDT21_SenderTurn(p, pkt) ==
    LET res == RDT21Sender_on_response(rdt21_sender, pkt) IN
    /\ rdt21_sender.waiting
    /\ rdt21_sender' = res.snd
    /\ rdt21_env' = [rdt21_env EXCEPT
           !.to_sender = ChannelTake(@, p),
           !.to_receiver = SendAll(@, res.out),
           !.returned = IF res.snd.waiting THEN @ ELSE @ + 1]
    /\ UNCHANGED rdt21_receiver
    /\ Only21

\* a datagram reaches the receiver, intact
RDT21_ReceiverGets ==
    \E p \in BagToSet(rdt21_env.to_receiver) : RDT21_ReceiverTurn(p, p)

\* a datagram reaches the receiver, corrupted by the channel
RDT21_ReceiverGetsCorrupt ==
    \E p \in BagToSet(rdt21_env.to_receiver) : \E idx \in CorruptIdxOf(p) :
        RDT21_ReceiverTurn(p, UnreliableChannel_corrupt_packet(p, idx))

\* a response reaches the sender, intact
RDT21_SenderGets ==
    \E p \in BagToSet(rdt21_env.to_sender) : RDT21_SenderTurn(p, p)

\* a response reaches the sender, corrupted by the channel
RDT21_SenderGetsCorrupt ==
    \E p \in BagToSet(rdt21_env.to_sender) : \E idx \in CorruptIdxOf(p) :
        RDT21_SenderTurn(p, UnreliableChannel_corrupt_packet(p, idx))

Next21 ==
    \/ RDT21_Send
    \/ RDT21_ReceiverGets
    \/ RDT21_ReceiverGetsCorrupt
    \/ RDT21_SenderGets
    \/ RDT21_SenderGetsCorrupt


(***************************************************************************)
(* fase1/rdt30.py                                                          *)
(***************************************************************************)
\* the zero-length datagram b'' that _on_timeout sends to the peer
EmptyDatagram ==
    [type |-> 0 - 1, seq_num |-> 0, data |-> NoData, checksum |-> <<0, 0, 0>>]

\* waiting: send() is blocked in _wait_for_ack; timer: the threading.Timer
\* is "none" (None or cancelled), "armed" (started) or "fired"
RDT30Sender_init ==
    [seq_num |-> 0, waiting |-> FALSE, packet |-> RDTPacket(DATA, 0, NoData),
     timer |-> "none", timer_running |-> FALSE,
     packets_sent |-> 0, retransmissions |-> 0, timeouts |-> 0,
     acks_received |-> 0]

RDT30Receiver_init ==
    [expected_seq_num |-> 0, last_ack_sent |-> 1, received_messages |-> <<>>,
     packets_received |-> 0, corrupted_packets |-> 0,
     duplicated_packets |-> 0, acks_sent |-> 0]

RDT30Sender_start_timer(s) ==
    [s EXCEPT !.timer_running = TRUE, !.timer = "armed"]

RDT30Sender_stop_timer(s) ==
    [s EXCEPT !.timer_running = FALSE, !.timer = "none"]

\* one turn of the loop of send up to the blocking recvfrom of _wait_for_ack:
\* _send_packet, packets_sent += 1, _start_timer
RDT30Sender_transmit(s) ==
    [snd |-> RDT30Sender_start_timer(
                 [s EXCEPT !.waiting = TRUE, !.packets_sent = @ + 1]),
     out |-> <<s.packet>>]

RDT30Sender_send(s, data) ==
    RDT30Sender_transmit([s EXCEPT !.packet = RDTPacket(DATA, s.seq_num, data)])

\* send(data) from the return of _wait_for_ack with a datagram to the next
\* wait or to the return of send
RDT30Sender_on_response(s, response) ==
    LET s1 == RDT30Sender_stop_timer(s) IN
    IF RDTPacket_is_corrupt(response)
    THEN RDT30Sender_transmit([s1 EXCEPT !.retransmissions = @ + 1])
    ELSE IF response.type = ACK /\ response.seq_num = s1.seq_num
    THEN [snd |-> [s1 EXCEPT !.acks_received = @ + 1,
                             !.waiting = FALSE,
                             !.seq_num = 1 - s1.seq_num],
          out |-> <<>>]
    ELSE RDT30Sender_transmit(s1)

\* send(data) when _wait_for_ack returns 'TIMEOUT' (socket.timeout)
RDT30Sender_on_wait_timeout(s) ==
    RDT30Sender_transmit([RDT30Sender_stop_timer(s) EXCEPT
                              !.timeouts = @ + 1, !.retransmissions = @ + 1])

\* the timer thread: socket.sendto(b'', peer_address) if timer_running
RDT30Sender_on_timeout(s) ==
    [snd |-> [s EXCEPT !.timer = "fired"],
     out |-> IF s.timer_running THEN <<EmptyDatagram>> ELSE <<>>]

RDT30Receiver_send_ack(r, seq_num) ==
    [rcv |-> [r EXCEPT !.acks_sent = @ + 1],
     out |-> <<RDTPacket(ACK, seq_num, NoData)>>]

\* one turn of _receive_loop on the datagram packet
RDT30Receiver_receive_loop(r, packet) ==
    IF packet = EmptyDatagram
    THEN [rcv |-> r, out |-> <<>>]
    ELSE
    LET r1 == [r EXCEPT !.packets_received = @ + 1] IN
    IF RDTPacket_is_corrupt(packet)
    THEN RDT30Receiver_send_ack([r1 EXCEPT !.corrupted_packets = @ + 1],
                                r1.last_ack_sent)
    ELSE IF packet.seq_num = r1.expected_seq_num
    THEN LET a == RDT30Receiver_send_ack(
                      [r1 EXCEPT !.received_messages = Append(@, packet.data)],
                      r1.expected_seq_num) IN
         [rcv |-> [a.rcv EXCEPT !.last_ack_sent = r1.expected_seq_num,
                                !.expected_seq_num = 1 - r1.expected_seq_num],
          out |-> a.out]
    ELSE RDT30Receiver_send_ack([r1 EXCEPT !.duplicated_packets = @ + 1],
                                r1.last_ack_sent)

Vars30Init ==
    /\ rdt30_sender = RDT30Sender_init
    /\ rdt30_receiver = RDT30Receiver_init
    /\ rdt30_env = [to_receiver |-> EmptyBag, to_sender |-> EmptyBag,
                    submitted |-> <<>>, returned |-> 0, corrupted |-> 0]

\* the rdt3.0 endpoints run alone
Only30 == UNCHANGED <<vars20, vars21, varsSR, varsGBN, varsTCP>>

\* the application calls sender.send(message) with the next message
RDT30_Send ==
    /\ ~rdt30_sender.waiting
    /\ Len(rdt30_env.submitted) < MaxMsgs
    /\ LET data == Len(rdt30_env.submitted) + 1
           res == RDT30Sender_send(rdt30_sender, data) IN
       /\ rdt30_sender' = res.snd
       /\ rdt30_env' = [rdt30_env EXCEPT
              !.submitted = Append(@, data),
              !.to_receiver = SendAll(@, res.out)]
    /\ UNCHANGED rdt30_receiver
    /\ Only30

\* the receiver's turn of _receive_loop on the datagram pkt, sent as p
RDT30_ReceiverTurn(p, pkt, faults) ==
    LET res == RDT30Receiver_receive_loop(rdt30_receiver, pkt) IN
    /\ rdt30_receiver' = res.rcv
    /\ rdt30_env' = [rdt30_env EXCEPT
           !.to_receiver = ChannelTake(@, p),
           !.to_sender = SendAll(@, res.out),
           !.corrupted = @ + faults]
    /\ UNCHANGED rdt30_sender
    /\ Only30

\* the sender's send() resumes with the datagram pkt, sent as p
RDT30_SenderTurn(p, pkt, faults) ==
    LET res == RDT30Sender_on_response(rdt30_sender, pkt) IN
    /\ rdt30_sender.waiting
    /\ rdt30_sender' = res.snd
    /\ rdt30_env' = [rdt30_env EXCEPT
           !.to_sender = ChannelTake(@, p),
           !.to_receiver = SendAll(@, res.out),
           !.returned = IF res.snd.waiting THEN @ ELSE @ + 1,
           !.corrupted = @ + faults]
    /\ UNCHANGED rdt30_receiver
    /\ Only30

\* a datagram reaches the receiver, intact
RDT30_ReceiverGets ==
    \E p \in BagToSet(rdt30_env.to_receiver) : RDT30_ReceiverTurn(p, p, 0)

\* a datagram reaches the receiver, corrupted by the channel
RDT30_ReceiverGetsCorrupt ==
    /\ rdt30_env.corrupted < MaxCorrupt
    /\ \E p \in BagToSet(rdt30_env.to_receiver) \ {EmptyDatagram} :
           \E idx \in CorruptIdxOf(p) :
               RDT30_ReceiverTurn(p, UnreliableChannel_corrupt_packet(p, idx), 1)

\* an acknowledgment reaches the sender, intact
RDT30_SenderGets ==
    \E p \in BagToSet(rdt30_env.to_sender) : RDT30_SenderTurn(p, p, 0)

\* an acknowledgment reaches the sender, corrupted by the channel
RDT30_SenderGetsCorrupt ==
    /\ rdt30_env.corrupted < MaxCorrupt
    /\ \E p \in BagToSet(rdt30_env.to_sender) : \E idx \in CorruptIdxOf(p) :
           RDT30_SenderTurn(p, UnreliableChannel_corrupt_packet(p, idx), 1)

\* the channel loses a DATA packet or an acknowledgment
RDT30_Lose ==
    /\ \/ \E p \in BagToSet(rdt30_env.to_receiver) \ {EmptyDatagram} :
              rdt30_env' = [rdt30_env EXCEPT !.to_receiver = ChannelTake(@, p)]
       \/ \E p \in BagToSet(rdt30_env.to_sender) :
              rdt30_env' = [rdt30_env EXCEPT !.to_sender = ChannelTake(@, p)]
    /\ UNCHANGED <<rdt30_sender, rdt30_receiver>>
    /\ Only30

\* the threading.Timer of the sender expires: _on_timeout runs
RDT30_OnTimeout ==
    /\ rdt30_sender.timer = "armed"
    /\ rdt30_sender.timeouts < MaxTimeouts
    /\ LET res == RDT30Sender_on_timeout(rdt30_sender) IN
       /\ rdt30_sender' = res.snd
       /\ rdt30_env' = [rdt30_env EXCEPT !.to_receiver = SendAll(@, res.out)]
    /\ UNCHANGED rdt30_receiver
    /\ Only30

\* recvfrom in _wait_for_ack raises socket.timeout, timeout_value + 0.5 s
\* after the wait began (so after the timer, of timeout_value, has expired)
RDT30_WaitTimeout ==
    /\ rdt30_sender.waiting
    /\ rdt30_sender.timer = "fired"
    /\ LET res == RDT30Sender_on_wait_timeout(rdt30_sender) IN
       /\ rdt30_sender' = res.snd
       /\ rdt30_env' = [rdt30_env EXCEPT !.to_receiver = SendAll(@, res.out)]
    /\ UNCHANGED rdt30_receiver
    /\ Only30

Next30 ==
    \/ RDT30_Send
    \/ RDT30_ReceiverGets
    \/ RDT30_ReceiverGetsCorrupt
    \/ RDT30_SenderGets
    \/ RDT30_SenderGetsCorrupt
    \/ RDT30_Lose
    \/ RDT30_OnTimeout
    \/ RDT30_WaitTimeout

(***************************************************************************)
(* fase2/selective_repeat_protocol.py.  The statistics counters of the two *)
(* endpoints are written by the protocol and read by get_statistics only;  *)
(* they are not part of the model.                                         *)
(***************************************************************************)
\* send_buffer: seq_num -> [packet, timer, acked]; the timer of an entry is
\* "none" (None), "armed" (started) or "done" (expired or cancelled).
\* expired: the seq_nums of the timer threads that have entered _on_timeout
\* and wait for the lock.  The sender is the one after start(dest_address).
SRSender_init(window_size) ==
    [window_size |-> window_size, base |-> 0, next_seq_num |-> 0,
     send_buffer |-> [q \in {} |-> 0], expired |-> {}, running |-> TRUE]

\* receive_buffer: seq_num -> data.  The receiver is the one after start().
SRReceiver_init(window_size) ==
    [window_size |-> window_size, rcv_base |-> 0,
     receive_buffer |-> [q \in {} |-> 0], delivered_messages |-> <<>>,
     running |-> TRUE]

\* d[key] = value
DictSet(d, key, value) ==
    [q \in DOMAIN d \cup {key} |-> IF q = key THEN value ELSE d[q]]

\* del d[key]
DictDel(d, key) == [q \in DOMAIN d \ {key} |-> d[q]]

\* timer.cancel(), for a timer that is not None
TimerCancel(timer) == IF timer = "none" THEN "none" ELSE "done"

SRSender_start_timer(s, seq_num) ==
    IF seq_num \in DOMAIN s.send_buffer
    THEN [s EXCEPT !.send_buffer[seq_num].timer = "armed"]
    ELSE s

\* send(data) after the wait for the window, the section under the lock
SRSender_send(s, data) ==
    LET packet == RDTPacket(DATA, s.next_seq_num, data)
        s1 == [s EXCEPT !.send_buffer = DictSet(@, s.next_seq_num,
                   [packet |-> packet, timer |-> "none", acked |-> FALSE])]
        s2 == SRSender_start_timer(s1, s.next_seq_num) IN
    [snd |-> [s2 EXCEPT !.next_seq_num = @ + 1], out |-> <<packet>>]

\* _on_timeout without the test of the acked flag
SRSender_on_timeout_unchecked(s, seq_num) ==
    LET s1 == [s EXCEPT !.expired = @ \ {seq_num}] IN
    IF seq_num \in DOMAIN s1.send_buffer
    THEN [snd |-> SRSender_start_timer(s1, seq_num),
          out |-> <<s1.send_buffer[seq_num].packet>>]
    ELSE [snd |-> s1, out |-> <<>>]

\* _on_timeout that restarts the timer and retransmits nothing
SRSender_on_timeout_no_resend(s, seq_num) ==
    LET s1 == [s EXCEPT !.expired = @ \ {seq_num}] IN
    IF seq_num \in DOMAIN s1.send_buffer /\ ~s1.send_buffer[seq_num].acked
    THEN [snd |-> SRSender_start_timer(s1, seq_num), out |-> <<>>]
    ELSE [snd |-> s1, out |-> <<>>]

\* _on_timeout(seq_num), the section under the lock
SRSender_on_timeout(s, seq_num) ==
    LET s1 == [s EXCEPT !.expired = @ \ {seq_num}] IN
    IF seq_num \in DOMAIN s1.send_buffer /\ ~s1.send_buffer[seq_num].acked
    THEN [snd |-> SRSender_start_timer(s1, seq_num),
          out |-> <<s1.send_buffer[seq_num].packet>>]
    ELSE [snd |-> s1, out |-> <<>>]

\* the advance of base with an if in the place of the while
SRSender_advance_base_once(s) ==
    IF s.base \in DOMAIN s.send_buffer /\ s.send_buffer[s.base].acked
    THEN [s EXCEPT !.send_buffer =
                       [q \in DOMAIN @ \ {s.base} |-> @[q]],
                   !.base = @ + 1]
    ELSE s

\* while self.base in self.send_buffer and self.send_buffer[self.base]['acked']
RECURSIVE SRSender_advance_base(_)
SRSender_advance_base(s) ==
    IF s.base \in DOMAIN s.send_buffer /\ s.send_buffer[s.base].acked
    THEN SRSender_advance_base(
             [s EXCEPT !.send_buffer = DictDel(@, s.base), !.base = @ + 1])
    ELSE s

SRSender_handle_ack(s, ack_packet) ==
    LET ack_num == ack_packet.seq_num IN
    IF ack_num \in DOMAIN s.send_buffer /\ ~s.send_buffer[ack_num].acked
    THEN LET s1 == [s EXCEPT !.send_buffer[ack_num].acked = TRUE,
                             !.send_buffer[ack_num].timer = TimerCancel(@)] IN
         IF ack_num = s1.base THEN SRSender_advance_base(s1) ELSE s1
    ELSE s

\* one turn of _ack_receive_loop on the datagram packet
SRSender_ack_receive_loop(s, packet) ==
    IF RDTPacket_is_corrupt(packet) THEN s
    ELSE IF packet.type = ACK THEN SRSender_handle_ack(s, packet)
    ELSE s

\* stop(): running = False, every timer of send_buffer that is not None is
\* cancelled under the lock, the ACK thread is joined and the socket closed;
\* the timer threads in expired are neither cancelled nor joined
SRSender_stop(s) ==
    [s EXCEPT !.running = FALSE,
              !.send_buffer = [q \in DOMAIN @ |->
                                  [@[q] EXCEPT !.timer = TimerCancel(@)]]]

SRReceiver_send_ack(r, seq_num) ==
    [rcv |-> r, out |-> <<RDTPacket(ACK, seq_num, NoData)>>]

\* while self.rcv_base in self.receive_buffer
RECURSIVE SRReceiver_deliver_buffered(_)
SRReceiver_deliver_buffered(r) ==
    IF r.rcv_base \in DOMAIN r.receive_buffer
    THEN SRReceiver_deliver_buffered(
             [r EXCEPT !.delivered_messages =
                           Append(@, r.receive_buffer[r.rcv_base]),
                       !.receive_buffer = DictDel(@, r.rcv_base),
                       !.rcv_base = @ + 1])
    ELSE r

\* _receive_loop whose window has no upper end: every packet at or above
\* rcv_base is acknowledged and delivered or buffered
SRReceiver_receive_loop_no_upper_end(r, packet) ==
    IF RDTPacket_is_corrupt(packet) THEN [rcv |-> r, out |-> <<>>]
    ELSE
    LET seq_num == packet.seq_num
        a == SRReceiver_send_ack(r, seq_num) IN
    IF seq_num = r.rcv_base
    THEN [rcv |-> SRReceiver_deliver_buffered(
                      [r EXCEPT !.delivered_messages = Append(@, packet.data),
                                !.rcv_base = @ + 1]),
          out |-> a.out]
    ELSE IF seq_num > r.rcv_base
    THEN [rcv |-> IF seq_num \notin DOMAIN r.receive_buffer
                  THEN [r EXCEPT !.receive_buffer =
                                     DictSet(@, seq_num, packet.data)]
                  ELSE r,
          out |-> a.out]
    ELSE a

\* _receive_loop that hands every packet of the window to the application
\* on arrival
SRReceiver_receive_loop_no_buffering(r, packet) ==
    IF RDTPacket_is_corrupt(packet) THEN [rcv |-> r, out |-> <<>>]
    ELSE
    LET seq_num == packet.seq_num IN
    IF r.rcv_base <= seq_num /\ seq_num < r.rcv_base + r.window_size
    THEN [rcv |-> [r EXCEPT !.delivered_messages = Append(@, packet.data),
                       !.rcv_base = IF seq_num = @ THEN @ + 1 ELSE @],
          out |-> SRReceiver_send_ack(r, seq_num).out]
    ELSE IF seq_num < r.rcv_base
    THEN SRReceiver_send_ack(r, seq_num)
    ELSE [rcv |-> r, out |-> <<>>]

\* one turn of _receive_loop on the datagram packet
SRReceiver_receive_loop(r, packet) ==
    IF RDTPacket_is_corrupt(packet) THEN [rcv |-> r, out |-> <<>>]
    ELSE
    LET seq_num == packet.seq_num IN
    IF r.rcv_base <= seq_num /\ seq_num < r.rcv_base + r.window_size
    THEN LET a == SRReceiver_send_ack(r, seq_num) IN
         IF seq_num = a.rcv.rcv_base
         THEN [rcv |-> SRReceiver_deliver_buffered(
                           [a.rcv EXCEPT
                                !.delivered_messages = Append(@, packet.data),
                                !.rcv_base = @ + 1]),
               out |-> a.out]
         ELSE IF seq_num > a.rcv.rcv_base
         THEN [rcv |-> IF seq_num \notin DOMAIN a.rcv.receive_buffer
                       THEN [a.rcv EXCEPT !.receive_buffer =
                                    DictSet(@, seq_num, packet.data)]
                       ELSE a.rcv,
               out |-> a.out]
         ELSE a
    ELSE IF seq_num < r.rcv_base
    THEN SRReceiver_send_ack(r, seq_num)
    ELSE [rcv |-> r, out |-> <<>>]

VarsSRInit(sender_window, receiver_window) ==
    /\ sr_sender = SRSender_init(sender_window)
    /\ sr_receiver = SRReceiver_init(receiver_window)
    /\ sr_env = [to_receiver |-> EmptyBag, to_sender |-> EmptyBag,
                 submitted |-> <<>>, raised |-> FALSE, app_pc |-> "idle"]

\* the Selective Repeat endpoints run alone
OnlySR == UNCHANGED <<vars20, vars21, vars30, varsGBN, varsTCP>>

\* the application calls sender.send(message) with the next message; the
\* call sleeps while the window is full
SR_Send ==
    /\ Len(sr_env.submitted) < MaxMsgs
    /\ ~(sr_sender.next_seq_num >= sr_sender.base + sr_sender.window_size)
    /\ LET data == Len(sr_env.submitted) + 1
           res == SRSender_send(sr_sender, data) IN
       /\ sr_sender' = res.snd
       /\ sr_env' = [sr_env EXCEPT
              !.submitted = Append(@, data),
              !.to_receiver = SendAllBounded(@, res.out)]
    /\ UNCHANGED sr_receiver
    /\ OnlySR

\* the application calls sender.send(chunk) for the next chunk of a long
\* transfer, all chunks alike; the call sleeps while the window is full, and
\* it ends with the struct.error of RDTPacket(...) when next_seq_num does
\* not fit, before anything is sent or written
SR_SendLong ==
    /\ Len(sr_env.submitted) < MaxLongMsgs
    /\ ~sr_env.raised
    /\ ~(sr_sender.next_seq_num >= sr_sender.base + sr_sender.window_size)
    /\ IF RDTPacket_fits(DATA, sr_sender.next_seq_num)
       THEN LET res == SRSender_send(sr_sender, 1) IN
            /\ sr_sender' = res.snd
            /\ sr_env' = [sr_env EXCEPT
                   !.submitted = Append(@, 1),
                   !.to_receiver = SendAllBounded(@, res.out)]
       ELSE /\ sr_env' = [sr_env EXCEPT !.submitted = Append(@, 1),
                                        !.raised = TRUE]
            /\ UNCHANGED sr_sender
    /\ UNCHANGED sr_receiver
    /\ OnlySR

\* the receiver's turn of _receive_loop on the datagram pkt, sent as p
SR_ReceiverTurn(p, pkt) ==
    /\ sr_receiver.running
    /\ BagIn(p, sr_env.to_receiver)
    /\ LET res == SRReceiver_receive_loop(sr_receiver, pkt) IN
       /\ sr_receiver' = res.rcv
       /\ sr_env' = [sr_env EXCEPT
              !.to_receiver = ChannelTake(@, p),
              !.to_sender = SendAllBounded(@, res.out)]
    /\ UNCHANGED sr_sender
    /\ OnlySR

\* the ACK thread's turn of _ack_receive_loop on the datagram pkt, sent as p
SR_SenderTurn(p, pkt) ==
    /\ sr_sender.running
    /\ BagIn(p, sr_env.to_sender)
    /\ sr_sender' = SRSender_ack_receive_loop(sr_sender, pkt)
    /\ sr_env' = [sr_env EXCEPT !.to_sender = ChannelTake(@, p)]
    /\ UNCHANGED sr_receiver
    /\ OnlySR

\* a DATA packet reaches the receiver, intact
SR_ReceiverGets ==
    \E p \in BagToSet(sr_env.to_receiver) : SR_ReceiverTurn(p, p)

\* a DATA packet reaches the receiver, corrupted by the channel
SR_ReceiverGetsCorrupt ==
    \E p \in BagToSet(sr_env.to_receiver) : \E idx \in CorruptIdxOf(p) :
        SR_ReceiverTurn(p, UnreliableChannel_corrupt_packet(p, idx))

\* an ACK reaches the sender, intact
SR_SenderGets ==
    \E p \in BagToSet(sr_env.to_sender) : SR_SenderTurn(p, p)

\* an ACK reaches the sender, corrupted by the channel
SR_SenderGetsCorrupt ==
    \E p \in BagToSet(sr_env.to_sender) : \E idx \in CorruptIdxOf(p) :
        SR_SenderTurn(p, UnreliableChannel_corrupt_packet(p, idx))

\* the channel loses a DATA packet or an ACK
SR_Lose ==
    /\ \/ \E p \in BagToSet(sr_env.to_receiver) :
              sr_env' = [sr_env EXCEPT !.to_receiver = ChannelTake(@, p)]
       \/ \E p \in BagToSet(sr_env.to_sender) :
              sr_env' = [sr_env EXCEPT !.to_sender = ChannelTake(@, p)]
    /\ UNCHANGED <<sr_sender, sr_receiver>>
    /\ OnlySR

\* the threading.Timer of entry seq_num expires: its thread enters
\* _on_timeout and asks for the lock
SR_TimerExpiresFor(seq_num) ==
    /\ seq_num \in DOMAIN sr_sender.send_buffer
    /\ sr_sender.send_buffer[seq_num].timer = "armed"
    /\ sr_sender' = [sr_sender EXCEPT
           !.send_buffer[seq_num].timer = "done",
           !.expired = @ \cup {seq_num}]
    /\ UNCHANGED <<sr_receiver, sr_env>>
    /\ OnlySR

\* the timer thread of entry seq_num gets the lock and runs _on_timeout;
\* after stop() the datagram it hands to the channel meets a closed socket
\* (_delayed_send catches the error) and reaches nobody
SR_OnTimeoutFor(seq_num) ==
    /\ seq_num \in sr_sender.expired
    /\ LET res == SRSender_on_timeout(sr_sender, seq_num) IN
       /\ sr_sender' = res.snd
       /\ sr_env' = [sr_env EXCEPT
              !.to_receiver = IF sr_sender.running
                              THEN SendAllBounded(@, res.out)
                              ELSE @]
    /\ UNCHANGED sr_receiver
    /\ OnlySR

SR_TimerExpires == \E seq_num \in 0..(MaxMsgs - 1) : SR_TimerExpiresFor(seq_num)

SR_OnTimeout == \E seq_num \in 0..(MaxMsgs - 1) : SR_OnTimeoutFor(seq_num)

NextSR ==
    \/ SR_Send
    \/ SR_ReceiverGets
    \/ SR_ReceiverGetsCorrupt
    \/ SR_SenderGets
    \/ SR_SenderGetsCorrupt
    \/ SR_Lose
    \/ SR_TimerExpires
    \/ SR_OnTimeout

\* send without the wait for the window
SR_SendBegin_no_wait ==
    /\ sr_env.app_pc = "idle"
    /\ Len(sr_env.submitted) < MaxMsgs
    /\ sr_env' = [sr_env EXCEPT
           !.submitted = Append(@, Len(@) + 1),
           !.app_pc = "send_lock"]
    /\ UNCHANGED <<sr_sender, sr_receiver>>
    /\ OnlySR

\* send(message) of the next message up to the end of its wait for the
\* window: the application thread stands before the with self.lock of send
\* (app_pc "send_lock") while the ACK thread and the timer threads go on
SR_SendBegin ==
    /\ sr_env.app_pc = "idle"
    /\ Len(sr_env.submitted) < MaxMsgs
    /\ ~(sr_sender.next_seq_num >= sr_sender.base + sr_sender.window_size)
    /\ sr_env' = [sr_env EXCEPT
           !.submitted = Append(@, Len(@) + 1),
           !.app_pc = "send_lock"]
    /\ UNCHANGED <<sr_sender, sr_receiver>>
    /\ OnlySR

\* the application thread gets the lock in send and runs the section under
\* it, to the end of send
SR_SendLocked ==
    /\ sr_env.app_pc = "send_lock"
    /\ LET data == sr_env.submitted[Len(sr_env.submitted)]
           res == SRSender_send(sr_sender, data) IN
       /\ sr_sender' = res.snd
       /\ sr_env' = [sr_env EXCEPT
              !.to_receiver = SendAllBounded(@, res.out),
              !.app_pc = "idle"]
    /\ UNCHANGED sr_receiver
    /\ OnlySR

\* the application calls sender.stop(), once
SR_Stop ==
    /\ sr_sender.running
    /\ sr_sender' = SRSender_stop(sr_sender)
    /\ UNCHANGED <<sr_receiver, sr_env>>
    /\ OnlySR

\* the same endpoints with an application that stops the sender at any
\* time and calls send no more afterwards
NextSRStop ==
    \/ sr_sender.running /\ SR_Send
    \/ SR_ReceiverGets
    \/ SR_ReceiverGetsCorrupt
    \/ SR_SenderGets
    \/ SR_SenderGetsCorrupt
    \/ SR_Lose
    \/ SR_TimerExpires
    \/ SR_OnTimeout
    \/ SR_Stop

\* the same endpoints with send in two steps, the wait for the window and
\* the section under the lock, interleaved with the ACK thread and the
\* timer threads
NextSRWindow ==
    \/ SR_SendBegin
    \/ SR_SendLocked
    \/ SR_ReceiverGets
    \/ SR_ReceiverGetsCorrupt
    \/ SR_SenderGets
    \/ SR_SenderGetsCorrupt
    \/ SR_Lose
    \/ SR_TimerExpires
    \/ SR_OnTimeout

\* a long transfer over a channel that loses and corrupts nothing
NextSRLong ==
    \/ SR_SendLong
    \/ SR_ReceiverGets
    \/ SR_SenderGets

(***************************************************************************)
(* fase2/go_back_n_protocol.py.  The sender has three threads that share   *)
(* self.lock, a threading.Lock (not reentrant): the application thread in  *)
(* send, the ACK thread in _ack_receive_loop and the timer thread in       *)
(* _on_timeout.  lock is "free" or names the thread that holds it.         *)
(***************************************************************************)
\* app_pc: the application thread is outside send ("idle"), at the with
\* self.lock of send ("send_lock"), at the call of _start_timer inside it
\* ("start_timer") or inside the acquire of the with self.lock of
\* _start_timer ("start_timer_lock").  ack_pc: the ACK thread is in recvfrom
\* ("recv") or at the with self.lock of _handle_ack(ACK ack_num)
\* ("handle_ack_lock").  The sender is the one after start(dest_address).
GBNSender_init(window_size) ==
    [window_size |-> window_size, base |-> 0, next_seq_num |-> 0,
     send_buffer |-> <<>>, timer |-> "none", timer_running |-> FALSE,
     lock |-> "free", running |-> TRUE,
     packets_sent |-> 0, retransmissions |-> 0, timeouts |-> 0,
     acks_received |-> 0,
     app_pc |-> "idle", packet |-> RDTPacket(DATA, 0, NoData),
     ack_pc |-> "recv", ack_num |-> 0]

GBNReceiver_init ==
    [expected_seq_num |-> 0, received_messages |-> <<>>, running |-> FALSE,
     packets_received |-> 0, out_of_order_packets |-> 0,
     corrupted_packets |-> 0, acks_sent |-> 0]

\* send(data) from the end of the wait for the window to the with self.lock
GBNSender_send(s, data) ==
    [s EXCEPT !.packet = RDTPacket(DATA, s.next_seq_num, data),
              !.app_pc = "send_lock"]

\* send(data) inside with self.lock, entered by the application thread: up
\* to the call of _start_timer, or to the end when the packet is not the
\* first of the window
GBNSender_send_locked(s) ==
    LET s1 == [s EXCEPT !.lock = "app",
                        !.send_buffer = Append(@, s.packet),
                        !.packets_sent = @ + 1] IN
    [snd |-> IF s1.base = s1.next_seq_num
             THEN [s1 EXCEPT !.app_pc = "start_timer"]
             ELSE [s1 EXCEPT !.next_seq_num = @ + 1, !.lock = "free",
                             !.app_pc = "idle"],
     out |-> <<s.packet>>]

\* _start_timer called from send: with self.lock.  The lock is free: the
\* timer is started and send goes on to its end.  The lock is taken: the
\* acquire does not return before the holder releases the lock
GBNSender_start_timer(s) ==
    IF s.lock = "free"
    THEN [s EXCEPT !.timer_running = TRUE, !.timer = "armed",
                   !.next_seq_num = @ + 1, !.app_pc = "idle"]
    ELSE [s EXCEPT !.app_pc = "start_timer_lock"]

\* one turn of _ack_receive_loop on the datagram packet, up to the
\* with self.lock of _handle_ack
GBNSender_ack_receive_loop(s, packet) ==
    IF RDTPacket_is_corrupt(packet) THEN s
    ELSE IF packet.type = ACK
    THEN [s EXCEPT !.ack_pc = "handle_ack_lock", !.ack_num = packet.seq_num]
    ELSE s

\* _stop_timer called by the ACK thread: with self.lock.  The lock is free:
\* the timer is cancelled.  The lock is taken, by the caller itself too:
\* the acquire does not return before the holder releases the lock
GBNSender_stop_timer(s) ==
    IF s.lock = "free"
    THEN [s EXCEPT !.timer_running = FALSE, !.timer = "none"]
    ELSE [s EXCEPT !.ack_pc = "stop_timer_lock"]

\* _handle_ack(ACK ack_num) from the moment the ACK thread has the lock, as
\* far as the thread gets: an ACK below base releases the lock and ends the
\* turn; otherwise the buffer is filtered, base is moved, and both branches
\* of the timer management begin with _stop_timer(), inside the lock
GBNSender_handle_ack(s) ==
    LET s1 == [s EXCEPT !.lock = "ack"] IN
    IF s.ack_num >= s.base
    THEN GBNSender_stop_timer(
             [s1 EXCEPT !.acks_received = @ + 1,
                        !.send_buffer =
                            SelectSeq(@, LAMBDA pkt : pkt.seq_num > s.ack_num),
                        !.base = s.ack_num + 1])
    ELSE [s1 EXCEPT !.lock = "free", !.ack_pc = "recv"]

\* _start_timer called by the timer thread: with self.lock.  returns tells
\* whether the acquire, and with it the call, comes to an end
GBNSender_restart_timer(s) ==
    IF s.lock = "free"
    THEN [snd |-> [s EXCEPT !.timer_running = TRUE, !.timer = "armed"],
          returns |-> TRUE]
    ELSE [snd |-> s, returns |-> FALSE]

\* _on_timeout from the moment the timer thread has the lock, as far as the
\* thread gets: every packet of send_buffer is sent again in the order of
\* the list, and with a buffer that is not empty _start_timer() is called
\* inside the lock
GBNSender_on_timeout(s) ==
    LET s1 == [s EXCEPT !.timeouts = @ + 1, !.lock = "timer",
                        !.retransmissions = @ + Len(s.send_buffer)] IN
    IF s1.send_buffer # <<>>
    THEN LET t == GBNSender_restart_timer(s1) IN
         [snd |-> IF t.returns THEN [t.snd EXCEPT !.lock = "free"] ELSE t.snd,
          out |-> s1.send_buffer, returns |-> t.returns]
    ELSE [snd |-> [s1 EXCEPT !.lock = "free"], out |-> <<>>, returns |-> TRUE]

GBNReceiver_send_ack(r, seq_num) ==
    [rcv |-> [r EXCEPT !.acks_sent = @ + 1],
     out |-> <<RDTPacket(ACK, seq_num, NoData)>>]

\* _receive_loop that delivers every intact packet at or above
\* expected_seq_num
GBNReceiver_receive_loop_skips(r, packet) ==
    LET r1 == [r EXCEPT !.packets_received = @ + 1]
        again(r2) == IF r2.expected_seq_num > 0
                     THEN GBNReceiver_send_ack(r2, r2.expected_seq_num - 1)
                     ELSE [rcv |-> r2, out |-> <<>>] IN
    IF RDTPacket_is_corrupt(packet)
    THEN again([r1 EXCEPT !.corrupted_packets = @ + 1])
    ELSE IF packet.seq_num >= r1.expected_seq_num
    THEN LET a == GBNReceiver_send_ack(
                      [r1 EXCEPT !.received_messages = Append(@, packet.data)],
                      packet.seq_num) IN
         [rcv |-> [a.rcv EXCEPT !.expected_seq_num = packet.seq_num + 1],
          out |-> a.out]
    ELSE again([r1 EXCEPT !.out_of_order_packets = @ + 1])

\* one turn of _receive_loop on the datagram packet
GBNReceiver_receive_loop(r, packet) ==
    LET r1 == [r EXCEPT !.packets_received = @ + 1]
        again(r2) == IF r2.expected_seq_num > 0
                     THEN GBNReceiver_send_ack(r2, r2.expected_seq_num - 1)
                     ELSE [rcv |-> r2, out |-> <<>>] IN
    IF RDTPacket_is_corrupt(packet)
    THEN again([r1 EXCEPT !.corrupted_packets = @ + 1])
    ELSE IF packet.seq_num = r1.expected_seq_num
    THEN LET a == GBNReceiver_send_ack(
                      [r1 EXCEPT !.received_messages = Append(@, packet.data)],
                      r1.expected_seq_num) IN
         [rcv |-> [a.rcv EXCEPT !.expected_seq_num = @ + 1], out |-> a.out]
    ELSE again([r1 EXCEPT !.out_of_order_packets = @ + 1])

VarsGBNInit(window_size) ==
    /\ gbn_sender = GBNSender_init(window_size)
    /\ gbn_receiver = GBNReceiver_init
    /\ gbn_env = [to_receiver |-> EmptyBag, to_sender |-> EmptyBag,
                  submitted |-> <<>>, returned |-> 0, arrivals |-> 0]

\* the Go-Back-N endpoints run alone
OnlyGBN == UNCHANGED <<vars20, vars21, vars30, varsSR, varsTCP>>

\* receiver.start(): the receive thread starts; datagrams that arrived
\* before wait in the socket
GBN_ReceiverStart ==
    /\ ~gbn_receiver.running
    /\ gbn_receiver' = [gbn_receiver EXCEPT !.running = TRUE]
    /\ UNCHANGED <<gbn_sender, gbn_env>>
    /\ OnlyGBN

\* the application calls sender.send(data); the call sleeps while the
\* window is full
GBN_Send ==
    /\ gbn_sender.app_pc = "idle"
    /\ Len(gbn_env.submitted) < MaxMsgs
    /\ ~(gbn_sender.next_seq_num >= gbn_sender.base + gbn_sender.window_size)
    /\ \E data \in 1..MaxMsgs :
        /\ gbn_sender' = GBNSender_send(gbn_sender, data)
        /\ gbn_env' = [gbn_env EXCEPT !.submitted = Append(@, data)]
    /\ UNCHANGED gbn_receiver
    /\ OnlyGBN

\* the application thread gets the lock in send
GBN_SendLocked ==
    /\ gbn_sender.app_pc = "send_lock"
    /\ gbn_sender.lock = "free"
    /\ LET res == GBNSender_send_locked(gbn_sender) IN
       /\ gbn_sender' = res.snd
       /\ gbn_env' = [gbn_env EXCEPT
              !.to_receiver = SendAllBounded(@, res.out),
              !.returned = IF res.snd.app_pc = "idle" THEN @ + 1 ELSE @]
    /\ UNCHANGED gbn_receiver
    /\ OnlyGBN

\* the application thread calls _start_timer from send
GBN_StartTimer ==
    /\ gbn_sender.app_pc = "start_timer"
    /\ gbn_sender' = GBNSender_start_timer(gbn_sender)
    /\ UNCHANGED <<gbn_receiver, gbn_env>>
    /\ OnlyGBN

\* the receiver's turn of _receive_loop on the datagram pkt, sent as p
GBN_ReceiverTurn(p, pkt) ==
    /\ gbn_receiver.running
    /\ BagIn(p, gbn_env.to_receiver)
    /\ LET res == GBNReceiver_receive_loop(gbn_receiver, pkt) IN
       /\ gbn_receiver' = res.rcv
       /\ gbn_env' = [gbn_env EXCEPT
              !.to_receiver = ChannelTake(@, p),
              !.to_sender = SendAllBounded(@, res.out)]
    /\ UNCHANGED gbn_sender
    /\ OnlyGBN

\* the ACK thread's turn of _ack_receive_loop on the datagram pkt, sent as p
GBN_SenderTurn(p, pkt) ==
    /\ gbn_sender.running
    /\ gbn_sender.ack_pc = "recv"
    /\ BagIn(p, gbn_env.to_sender)
    /\ gbn_sender' = GBNSender_ack_receive_loop(gbn_sender, pkt)
    /\ gbn_env' = [gbn_env EXCEPT !.to_sender = ChannelTake(@, p)]
    /\ UNCHANGED gbn_receiver
    /\ OnlyGBN

\* a DATA packet reaches the receiver, intact
GBN_ReceiverGets ==
    \E p \in BagToSet(gbn_env.to_receiver) : GBN_ReceiverTurn(p, p)

\* a DATA packet reaches the receiver, corrupted by the channel
GBN_ReceiverGetsCorrupt ==
    \E p \in BagToSet(gbn_env.to_receiver) : \E idx \in CorruptIdxOf(p) :
        GBN_ReceiverTurn(p, UnreliableChannel_corrupt_packet(p, idx))

\* an ACK reaches the sender, intact
GBN_SenderGets ==
    \E p \in BagToSet(gbn_env.to_sender) : GBN_SenderTurn(p, p)

\* an ACK reaches the sender, corrupted by the channel
GBN_SenderGetsCorrupt ==
    \E p \in BagToSet(gbn_env.to_sender) : \E idx \in CorruptIdxOf(p) :
        GBN_SenderTurn(p, UnreliableChannel_corrupt_packet(p, idx))

\* the channel loses a DATA packet or an ACK
GBN_Lose ==
    /\ \/ \E p \in BagToSet(gbn_env.to_receiver) :
              gbn_env' = [gbn_env EXCEPT !.to_receiver = ChannelTake(@, p)]
       \/ \E p \in BagToSet(gbn_env.to_sender) :
              gbn_env' = [gbn_env EXCEPT !.to_sender = ChannelTake(@, p)]
    /\ UNCHANGED <<gbn_sender, gbn_receiver>>
    /\ OnlyGBN

\* some sender puts the DATA packet of message number seq_num on the channel
\* to the receiver, a first time or again, in any order: message number k
\* has the payload k + 1
GBN_Arrives ==
    /\ gbn_env.arrivals < MaxArrivals
    /\ \E seq_num \in 0..(MaxMsgs - 1) :
           gbn_env' = [gbn_env EXCEPT
               !.to_receiver = SendAllBounded(
                   @, <<RDTPacket(DATA, seq_num, seq_num + 1)>>),
               !.arrivals = @ + 1]
    /\ UNCHANGED <<gbn_sender, gbn_receiver>>
    /\ OnlyGBN

\* the channel loses a DATA packet on its way to the receiver
GBN_LoseData ==
    /\ \E p \in BagToSet(gbn_env.to_receiver) :
           gbn_env' = [gbn_env EXCEPT !.to_receiver = ChannelTake(@, p)]
    /\ UNCHANGED <<gbn_sender, gbn_receiver>>
    /\ OnlyGBN

\* the GBN receiver on its own, with the DATA packets of any sender arriving
\* in any order, intact or corrupted, or not at all
NextGBNReceiver ==
    \/ GBN_ReceiverStart
    \/ GBN_Arrives
    \/ GBN_ReceiverGets
    \/ GBN_ReceiverGetsCorrupt
    \/ GBN_LoseData

\* The steps of the sender behind an acquire of the lock by the ACK thread
\* (the body of _handle_ack) and by the timer thread (_on_timeout) need the
\* lock free; the application thread takes the lock in its first send and
\* keeps it while it waits in _start_timer, and the timer is never started.
NextGBN ==
    \/ GBN_ReceiverStart
    \/ GBN_Send
    \/ GBN_SendLocked
    \/ GBN_StartTimer
    \/ GBN_ReceiverGets
    \/ GBN_ReceiverGetsCorrupt
    \/ GBN_SenderGets
    \/ GBN_SenderGetsCorrupt
    \/ GBN_Lose

(***************************************************************************)
(* utils/packet.py: TCPSegment.  The two ports are fixed for a connection  *)
(* and left out.  The payload of a segment is a chunk <<first, len>> of    *)
(* the byte stream its sender's application submitted: len bytes, the      *)
(* first of them byte number first of the stream; b'' is <<0, 0>>.         *)
(***************************************************************************)
FLAG_FIN == 1
FLAG_SYN == 2
FLAG_ACK == 16
HeaderLen == 5

NoBytes == <<0, 0>>

\* hashlib.md5(header + data).digest()[:2], the header packed with the
\* constant 5 as header length; the digest is taken as collision-free
TCPSegment_calculate_checksum(seq_num, ack_num, flags, window_size, data) ==
    <<seq_num, ack_num, flags, window_size, data>>

TCPSegment(seq_num, ack_num, flags, window_size, data) ==
    [seq_num |-> seq_num, ack_num |-> ack_num, header_len |-> HeaderLen,
     flags |-> flags, window_size |-> window_size, data |-> data,
     checksum |-> TCPSegment_calculate_checksum(seq_num, ack_num, flags,
                                                window_size, data)]

TCPSegment_is_corrupt(g) ==
    g.checksum # TCPSegment_calculate_checksum(g.seq_num, g.ack_num, g.flags,
                                               g.window_size, g.data)

\* (self.flags & flag) != 0, for a flag of one bit
TCPSegment_has_flag(g, flag) == (g.flags \div flag) % 2 = 1

\* b ^ 0xFF on the lowest byte of the number n
XorLowByte(n) == n - (n % 256) + (255 - (n % 256))

\* the fields of a serialized segment _corrupt_packet may hit
SegmentCorruptIdx(g) ==
    {"seq_num", "ack_num", "header_len", "flags", "window_size", "checksum"}
        \cup (IF g.data = NoBytes THEN {} ELSE {"data"})

\* _corrupt_packet on one byte of field idx, as the fields of the segment
\* object built from the bytes; the header length byte is read and not kept
UnreliableChannel_corrupt_segment(g, idx) ==
    CASE idx = "seq_num"     -> [g EXCEPT !.seq_num = XorLowByte(@)]
      [] idx = "ack_num"     -> [g EXCEPT !.ack_num = XorLowByte(@)]
      [] idx = "header_len"  -> g
      [] idx = "flags"       -> [g EXCEPT !.flags = XorLowByte(@)]
      [] idx = "window_size" -> [g EXCEPT !.window_size = XorLowByte(@)]
      [] idx = "checksum"    -> [g EXCEPT !.checksum[1] = XorLowByte(@)]
      [] idx = "data"        -> [g EXCEPT !.data[1] = 0 - @]

\* struct.calcsize('!HHIIBBH2s'): the header serialize packs
TCPHeaderSize == 18
\* the least length TCPSegment.deserialize takes, and the length of the
\* slice segment_bytes[:20] it hands to struct.unpack
TCPMinLen == 20

\* the field widths of '!HHIIBBH2s', the two ports taken as one field
TCPWidths == <<4, 4, 4, 1, 1, 2, 2>>

\* struct.pack('!HHIIBBH2s', src_port, dst_port, seq_num, ack_num, 5,
\* flags, window_size, checksum) + data; a payload of n bytes is n units
TCPSegment_serialize(g) ==
    <<"ports", g.seq_num, g.ack_num, HeaderLen, g.flags, g.window_size,
      g.checksum>> \o [k \in 1..g.data[2] |-> g.data[1] + k - 1]

\* struct.unpack(fmt, buffer) for a format of size bytes: the fields, and
\* struct.error for a buffer of any other length
Struct_unpack(size, buffer, widths) ==
    IF BytesLen(buffer, widths) = size THEN buffer ELSE None

\* segment_bytes[:n]
BytesPrefix(bytes, widths, n) ==
    LET Fits == {k \in 0..Len(bytes) :
                    BytesLen(SubSeq(bytes, 1, k), widths) <= n}
        k == CHOOSE m \in Fits : \A j \in Fits : j <= m
    IN  SubSeq(bytes, 1, k)

\* TCPSegment.deserialize(segment_bytes): None for fewer than 20 bytes and
\* for the struct.error the try block catches
TCPSegment_deserialize(segment_bytes) ==
    IF BytesLen(segment_bytes, TCPWidths) < TCPMinLen THEN None
    ELSE LET fields == Struct_unpack(
                           TCPHeaderSize,
                           BytesPrefix(segment_bytes, TCPWidths, TCPMinLen),
                           TCPWidths)
             rest == SubSeq(segment_bytes, Len(TCPWidths) + 1
                                + (TCPMinLen - TCPHeaderSize),
                            Len(segment_bytes))
         IN  IF fields = None THEN None
             ELSE [TCPSegment(fields[2], fields[3], fields[5], fields[6],
                              IF rest = <<>> THEN NoBytes
                              ELSE <<rest[1], Len(rest)>>)
                      EXCEPT !.checksum = fields[7]]

(***************************************************************************)
(* fase3/tcp_socket.py: SimpleTCPSocket.  The RTT estimator sets only the  *)
(* length of the retransmission timeout, and the timer of the model may    *)
(* expire at any time; estimated_rtt, dev_rtt and the statistics counters  *)
(* are not part of the model.                                              *)
(***************************************************************************)
MSS == 1024
\* the initial sequence numbers the sockets draw, from 0..10000
ISNs == {0, 10000}
\* the lengths of the data the applications pass to send
SendSizes == {512, 1536}

\* the buffer sizes the applications pass to recv
RecvSizes == {1, 512}
InitialWindow == 4096
InitialCwnd == 1024

Endpoints == {"client", "server"}

Peer(e) == IF e = "client" THEN "server" ELSE "client"

\* app_pc: the application thread is outside every call ("idle"), in the
\* wait loop of connect ("connect"), at the top of the while loop of send
\* ("send") or at its call of _start_retransmit_timer ("send_timer");
\* pending is what is left of the data of the send call in progress; in
\* the wait loop of close ("close") or past the udp_socket.close() that ends
\* close ("closed").  net_pc: the receive thread is in its loop ("recv") or
\* in the time.sleep(0.1) between the ACK and the FIN that answer a FIN
\* ("fin_sleep").  timer: None ("none"), a started Timer ("armed") or a
\* Timer that close cancelled ("cancelled").  rtt_samples stands for
\* estimated_rtt and dev_rtt: it counts the calls of _update_rtt, each of
\* which recomputes both.  The 'time' of a send_buffer entry is abstract:
\* "sent" is the time of the first transmission, "resent" the time
\* _on_retransmit_timeout wrote at a retransmission
SimpleTCPSocket_init(isn) ==
    [state |-> "CLOSED", seq_num |-> isn, ack_num |-> 0, peer_seq_num |-> 0,
     send_buffer |-> <<>>, recv_buffer |-> [q \in {} |-> NoBytes],
     recv_window |-> InitialWindow, send_window |-> InitialWindow,
     cwnd |-> InitialCwnd, running |-> FALSE, timer |-> "none",
     app_data |-> <<>>, app_pc |-> "idle", pending |-> NoBytes,
     bytes_sent |-> 0, rtt_samples |-> 0,
     net_pc |-> "recv"]

\* _deliver_in_order_data that hands over the buffered chunk of the lowest
\* sequence number, expected or not
SimpleTCPSocket_deliver_lowest(s) ==
    IF DOMAIN s.recv_buffer = {} THEN s
    ELSE LET seq == CHOOSE q \in DOMAIN s.recv_buffer :
                        \A r \in DOMAIN s.recv_buffer : q <= r
             data == s.recv_buffer[seq] IN
         [s EXCEPT !.recv_buffer = DictDel(@, seq),
                   !.app_data = Append(@, data),
                   !.peer_seq_num = seq + data[2] - 1]

\* while expected_seq in self.recv_buffer
RECURSIVE SimpleTCPSocket_deliver_in_order_data(_)
SimpleTCPSocket_deliver_in_order_data(s) ==
    LET expected_seq == s.peer_seq_num + 1 IN
    IF expected_seq \in DOMAIN s.recv_buffer
    THEN LET data == s.recv_buffer[expected_seq] IN
         SimpleTCPSocket_deliver_in_order_data(
             [s EXCEPT !.recv_buffer = DictDel(@, expected_seq),
                       !.app_data = Append(@, data),
                       !.peer_seq_num = expected_seq + data[2] - 1])
    ELSE s

SimpleTCPSocket_receive_data(s, segment) ==
    LET s1 == SimpleTCPSocket_deliver_in_order_data(
                  [s EXCEPT !.recv_buffer =
                                DictSet(@, segment.seq_num, segment.data)])
        s2 == [s1 EXCEPT !.ack_num = segment.seq_num + segment.data[2]] IN
    [sock |-> s2,
     out |-> <<TCPSegment(s2.seq_num, s2.ack_num, FLAG_ACK, s2.recv_window,
                          NoBytes)>>]

\* a _process_ack that takes an RTT sample only from an entry that was not
\* retransmitted
SimpleTCPSocket_process_ack_karn(s, segment) ==
    LET left == SelectSeq(s.send_buffer,
                          LAMBDA entry : ~(entry.seq < segment.ack_num))
        fresh == SelectSeq(s.send_buffer,
                           LAMBDA entry : /\ entry.seq < segment.ack_num
                                          /\ entry.time = "sent") IN
    [s EXCEPT !.send_window = segment.window_size,
              !.send_buffer = left,
              !.rtt_samples = @ + Len(fresh),
              !.timer = IF left = <<>> THEN "none" ELSE @]

\* _process_ack: every entry below ack_num is marked, gives an RTT sample to
\* _update_rtt and is removed
SimpleTCPSocket_process_ack(s, segment) ==
    LET left == SelectSeq(s.send_buffer,
                          LAMBDA entry : ~(entry.seq < segment.ack_num)) IN
    [s EXCEPT !.send_window = segment.window_size,
              !.send_buffer = left,
              !.rtt_samples = @ + (Len(s.send_buffer) - Len(left)),
              !.timer = IF left = <<>> THEN "none" ELSE @]

\* _process_ack up to the test `if not self.send_buffer`, which it makes
\* after it released buffer_lock: the receive thread goes on to the timer
\* (net_pc "stop_timer") when it read an empty buffer
SimpleTCPSocket_process_ack_buffer(s, segment) ==
    LET left == SelectSeq(s.send_buffer,
                          LAMBDA entry : ~(entry.seq < segment.ack_num)) IN
    [s EXCEPT !.send_window = segment.window_size,
              !.send_buffer = left,
              !.rtt_samples = @ + (Len(s.send_buffer) - Len(left)),
              !.net_pc = IF left = <<>> THEN "stop_timer" ELSE @]

\* _process_ack from with self.timer_lock on: the timer is cancelled and
\* self.timer set to None
SimpleTCPSocket_process_ack_stop_timer(s) ==
    [s EXCEPT !.timer = "none", !.net_pc = "recv"]

SimpleTCPSocket_start_retransmit_timer(s) ==
    IF s.timer = "none" /\ s.send_buffer # <<>>
    THEN [s EXCEPT !.timer = "armed"]
    ELSE s

SimpleTCPSocket_on_retransmit_timeout(s) ==
    [sock |-> SimpleTCPSocket_start_retransmit_timer(
                  [s EXCEPT !.timer = "none",
                            !.send_buffer =
                                [i \in 1..Len(@) |->
                                    [@[i] EXCEPT !.time = "resent"]]]),
     out |-> [i \in 1..Len(s.send_buffer) |-> s.send_buffer[i].segment]]

RECURSIVE SumLen(_)
SumLen(entries) ==
    IF entries = <<>> THEN 0 ELSE Head(entries).data[2] + SumLen(Tail(entries))

SimpleTCPSocket_get_unacked_bytes(s) == SumLen(s.send_buffer)

\* a reply that never carries SYN or FIN
SimpleTCPSocket_reply_ack_only(s, seq_num, flags) ==
    TCPSegment(seq_num, s.ack_num, FLAG_ACK, s.recv_window, NoBytes)

\* ACK segment (seq_num, self.ack_num) of _process_segment with no data
SimpleTCPSocket_reply(s, seq_num, flags) ==
    TCPSegment(seq_num, s.ack_num, flags, s.recv_window, NoBytes)

\* _process_segment(segment, addr) in the state ESTABLISHED, for a FIN up to
\* the time.sleep(0.1) that follows the ACK
SimpleTCPSocket_process_established(s, segment) ==
    LET r1 == IF segment.data[2] > 0
              THEN SimpleTCPSocket_receive_data(s, segment)
              ELSE [sock |-> s, out |-> <<>>]
        s2 == IF TCPSegment_has_flag(segment, FLAG_ACK)
              THEN SimpleTCPSocket_process_ack(r1.sock, segment)
              ELSE r1.sock
        s3 == [s2 EXCEPT !.ack_num = segment.seq_num + 1] IN
    IF TCPSegment_has_flag(segment, FLAG_FIN)
    THEN [sock |-> [s3 EXCEPT !.state = "CLOSE_WAIT", !.net_pc = "fin_sleep"],
          out |-> r1.out \o
                  <<SimpleTCPSocket_reply(s3, s3.seq_num, FLAG_ACK)>>]
    ELSE [sock |-> s2, out |-> r1.out]

\* a FIN reply after which the passive side is CLOSED at once, with no
\* LAST_ACK
SimpleTCPSocket_fin_reply_closed(s) ==
    [sock |-> [s EXCEPT !.state = "CLOSED", !.net_pc = "recv"],
     out |-> IF s.app_pc = "closed" THEN <<>>
             ELSE <<SimpleTCPSocket_reply(s, s.seq_num, FLAG_FIN + FLAG_ACK)>>]

\* _process_segment in the state ESTABLISHED after the time.sleep(0.1): the
\* FIN is sent back (through a socket that close has closed it gets lost in
\* _delayed_send) and the state is LAST_ACK
SimpleTCPSocket_fin_reply(s) ==
    [sock |-> [s EXCEPT !.state = "LAST_ACK", !.net_pc = "recv"],
     out |-> IF s.app_pc = "closed" THEN <<>>
             ELSE <<SimpleTCPSocket_reply(s, s.seq_num, FLAG_FIN + FLAG_ACK)>>]

\* _process_segment(segment, addr), the network thread's handler of a
\* segment that is not corrupt
SimpleTCPSocket_process_segment(s, segment) ==
    LET syn == TCPSegment_has_flag(segment, FLAG_SYN)
        ack == TCPSegment_has_flag(segment, FLAG_ACK)
        fin == TCPSegment_has_flag(segment, FLAG_FIN)
        nothing == [sock |-> s, out |-> <<>>]
        opened == [s EXCEPT !.peer_seq_num = segment.seq_num,
                            !.ack_num = segment.seq_num + 1,
                            !.send_window = segment.window_size,
                            !.seq_num = @ + 1]
        closed == [s EXCEPT !.ack_num = segment.seq_num + 1,
                            !.state = "CLOSED"] IN
    CASE s.state = "LISTEN" ->
           IF syn
           THEN [sock |-> [opened EXCEPT !.state = "SYN_RECEIVED"],
                 out |-> <<SimpleTCPSocket_reply(opened, s.seq_num,
                                                 FLAG_SYN + FLAG_ACK)>>]
           ELSE nothing
      [] s.state = "SYN_SENT" ->
           IF syn /\ ack
           THEN [sock |-> [opened EXCEPT !.state = "ESTABLISHED"],
                 out |-> <<SimpleTCPSocket_reply(opened, s.seq_num + 1,
                                                 FLAG_ACK)>>]
           ELSE nothing
      [] s.state = "SYN_RECEIVED" ->
           IF ack THEN [sock |-> [s EXCEPT !.state = "ESTABLISHED"],
                        out |-> <<>>]
           ELSE nothing
      [] s.state = "ESTABLISHED" ->
           SimpleTCPSocket_process_established(s, segment)
      [] s.state = "FIN_WAIT_1" ->
           IF fin
           THEN [sock |-> closed,
                 out |-> <<SimpleTCPSocket_reply(closed, s.seq_num, FLAG_ACK)>>]
           ELSE IF ack THEN [sock |-> [s EXCEPT !.state = "FIN_WAIT_2"],
                             out |-> <<>>]
           ELSE nothing
      [] s.state = "FIN_WAIT_2" ->
           IF fin
           THEN [sock |-> closed,
                 out |-> <<SimpleTCPSocket_reply(closed, s.seq_num, FLAG_ACK)>>]
           ELSE nothing
      [] s.state = "LAST_ACK" ->
           IF ack THEN [sock |-> [s EXCEPT !.state = "CLOSED"], out |-> <<>>]
           ELSE nothing
      [] OTHER -> nothing

\* connect(dest_address) up to its wait loop
SimpleTCPSocket_connect(s) ==
    [sock |-> [s EXCEPT !.running = TRUE, !.state = "SYN_SENT",
                        !.app_pc = "connect"],
     out |-> <<TCPSegment(s.seq_num, 0, FLAG_SYN, s.recv_window, NoBytes)>>]

\* connect(dest_address), the wait loop: the state is ESTABLISHED (return
\* True), or the 5 s are over (return False)
SimpleTCPSocket_connect_return(s) ==
    IF s.state = "ESTABLISHED"
    THEN [s EXCEPT !.app_pc = "idle"]
    ELSE [s EXCEPT !.app_pc = "idle", !.state = "CLOSED"]

\* close(), from "Limpar recursos" on
SimpleTCPSocket_close_cleanup(s) ==
    [s EXCEPT !.running = FALSE,
              !.timer = IF @ = "armed" THEN "cancelled" ELSE @,
              !.app_pc = "closed"]

\* close() up to its wait loop, or to its end when it does not wait
SimpleTCPSocket_close(s) ==
    IF s.state = "CLOSED" THEN [sock |-> s, out |-> <<>>]
    ELSE IF s.state = "ESTABLISHED"
    THEN [sock |-> [s EXCEPT !.state = "FIN_WAIT_1", !.seq_num = @ + 1,
                             !.app_pc = "close"],
          out |-> <<SimpleTCPSocket_reply(s, s.seq_num, FLAG_FIN + FLAG_ACK)>>]
    ELSE [sock |-> SimpleTCPSocket_close_cleanup(s), out |-> <<>>]

\* a send that refuses only a socket that is CLOSED
SimpleTCPSocket_send_unless_closed(s, first, n) ==
    IF s.state = "CLOSED" THEN [sock |-> s, ret |-> 0]
    ELSE [sock |-> [s EXCEPT !.bytes_sent = @ + n, !.app_pc = "send",
                             !.pending = <<first, n>>],
          ret |-> n]

\* send(data) for n bytes of data, up to the while loop; the bytes are the
\* next n of the stream, after the first bytes passed to send before; ret is
\* what send returns, at once (0) or after the loop (len(data))
SimpleTCPSocket_send(s, first, n) ==
    IF s.state # "ESTABLISHED" THEN [sock |-> s, ret |-> 0]
    ELSE [sock |-> [s EXCEPT !.bytes_sent = @ + n, !.app_pc = "send",
                             !.pending = <<first, n>>],
          ret |-> n]

\* one turn of the while loop of send, after the wait for the window and up
\* to the call of _start_retransmit_timer
SimpleTCPSocket_send_chunk(s) ==
    LET len == IF s.pending[2] < MSS THEN s.pending[2] ELSE MSS
        chunk == <<s.pending[1], len>>
        segment == TCPSegment(s.seq_num, s.ack_num, FLAG_ACK, s.recv_window,
                              chunk) IN
    [sock |-> [s EXCEPT
                 !.send_buffer = Append(@, [seq |-> s.seq_num, data |-> chunk,
                                            time |-> "sent",
                                            segment |-> segment]),
                 !.seq_num = @ + len,
                 !.pending = <<s.pending[1] + len, s.pending[2] - len>>,
                 !.app_pc = "send_timer"],
     out |-> <<segment>>]

\* the call of _start_retransmit_timer that ends a turn of the loop of send
SimpleTCPSocket_send_timer(s) ==
    [SimpleTCPSocket_start_retransmit_timer(s) EXCEPT
         !.app_pc = IF s.pending[2] > 0 THEN "send" ELSE "idle"]

\* recv(buffer_size): b'' unless the state is ESTABLISHED or CLOSE_WAIT, and
\* b'' after the 10 s of the wait loop when app_data stays empty; otherwise
\* the join of app_data[:buffer_size], a slice of the list of chunks, and
\* app_data[buffer_size:] is what stays queued
SimpleTCPSocket_recv(s, buffer_size) ==
    IF s.state \notin {"ESTABLISHED", "CLOSE_WAIT"} \/ s.app_data = <<>>
    THEN [sock |-> s, data |-> <<>>]
    ELSE LET k == IF buffer_size < Len(s.app_data) THEN buffer_size
                  ELSE Len(s.app_data) IN
         [sock |-> [s EXCEPT !.app_data = SubSeq(@, k + 1, Len(@))],
          data |-> SubSeq(s.app_data, 1, k)]

\* _process_segment after its first two lines: current_state is the state
\* read under state_lock when the call began, the socket s is what the other
\* threads have made of it since; the branch is chosen by current_state, and
\* a branch that writes no state leaves self.state as it is now
SimpleTCPSocket_process_latched(s, current_state, segment) ==
    LET res == SimpleTCPSocket_process_segment(
                   [s EXCEPT !.state = current_state], segment) IN
    IF res.sock.state = current_state
    THEN [res EXCEPT !.sock.state = s.state]
    ELSE res

\* the state after the construction of the two sockets, with their initial
\* sequence numbers (random.randint(0, 10000)); net[e] holds the segments in
\* flight to endpoint e, submitted[e] counts the bytes endpoint e accepted in
\* send, appended[e] lists the chunks endpoint e appended to app_data, early
\* tells that a send was accepted before the peer was ESTABLISHED, isn[e] is
\* the initial sequence number endpoint e drew, connected is what connect
\* returned ("none" before it returns), closed_by[e] tells whether the
\* application of e called close: "no", "graceful" (in ESTABLISHED with the
\* peer ESTABLISHED) or "other"
VarsTCPInit(client_isn, server_isn) ==
    /\ tcp = [e \in Endpoints |->
                 SimpleTCPSocket_init(IF e = "client" THEN client_isn
                                                      ELSE server_isn)]
    /\ tcp_env = [net |-> [e \in Endpoints |-> EmptyBag],
                  submitted |-> [e \in Endpoints |-> 0],
                  appended |-> [e \in Endpoints |-> <<>>],
                  early |-> FALSE, sends |-> 0, timeouts |-> 0,
                  isn |-> [client |-> client_isn, server |-> server_isn],
                  connected |-> "none",
                  closed_by |-> [e \in Endpoints |-> "no"],
                  processing |-> [e \in Endpoints |-> <<>>]]

\* the TCP endpoints run alone
OnlyTCP == UNCHANGED <<vars20, vars21, vars30, varsSR, varsGBN>>

\* the datagrams on their way to endpoint d after the segments out were sent
\* to it: the operating system discards a datagram for a socket that close
\* has closed
TCP_SendTo(d, bag, out) ==
    IF tcp[d].app_pc = "closed" THEN bag ELSE SendAll(bag, out)

\* the datagrams on their way to endpoint d, whose socket is sock now: what
\* is queued at a socket is gone when close closes it
TCP_Queued(sock, bag) ==
    IF sock.app_pc = "closed" THEN EmptyBag ELSE bag

\* endpoint e goes to the socket sock and sends the segments out
TCP_Step(e, sock, out) ==
    /\ tcp' = [tcp EXCEPT ![e] = sock]
    /\ tcp_env' = [tcp_env EXCEPT
           !.net[Peer(e)] = TCP_SendTo(Peer(e), @, out),
           !.appended[e] =
               @ \o SubSeq(sock.app_data, Len(tcp[e].app_data) + 1,
                           Len(sock.app_data))]

\* the server application calls listen()
TCP_Listen ==
    /\ ~tcp["server"].running
    /\ tcp["server"].app_pc = "idle"
    /\ TCP_Step("server", [tcp["server"] EXCEPT !.state = "LISTEN",
                                                !.running = TRUE], <<>>)
    /\ OnlyTCP

\* the client application calls connect(dest_address)
TCP_Connect ==
    /\ ~tcp["client"].running
    /\ tcp["client"].app_pc = "idle"
    /\ LET res == SimpleTCPSocket_connect(tcp["client"]) IN
       TCP_Step("client", res.sock, res.out)
    /\ OnlyTCP

\* connect returns
TCP_ConnectReturn ==
    /\ tcp["client"].app_pc = "connect"
    /\ tcp' = [tcp EXCEPT
                  !["client"] = SimpleTCPSocket_connect_return(tcp["client"])]
    /\ tcp_env' = [tcp_env EXCEPT
                      !.connected = IF tcp["client"].state = "ESTABLISHED"
                                    THEN "True" ELSE "False"]
    /\ OnlyTCP

\* connect returns, on a channel that loses nothing and delays a segment by
\* at most 0.1 s: the 5 s of the wait loop are over only when the server
\* does not answer, so False is returned only while the server has no
\* receive thread
TCP_ConnectReturnInTime ==
    /\ tcp["client"].state = "ESTABLISHED" \/ ~tcp["server"].running
    /\ TCP_ConnectReturn

\* an application calls send(data) with n more bytes
TCP_Send ==
    \E e \in Endpoints : \E n \in SendSizes :
        /\ tcp[e].app_pc \in {"idle", "closed"}
        /\ tcp_env.sends < MaxSends
        /\ LET res == SimpleTCPSocket_send(tcp[e], tcp_env.submitted[e] + 1, n)
               accepted == res.ret IN
           /\ tcp' = [tcp EXCEPT ![e] = res.sock]
           /\ tcp_env' = [tcp_env EXCEPT
                  !.submitted[e] = @ + accepted,
                  !.early = @ \/ (accepted > 0 /\
                                   tcp[Peer(e)].state # "ESTABLISHED"),
                  !.sends = @ + 1]
        /\ OnlyTCP

\* send transmits the next segment, when the window has room for it
TCP_SendChunk ==
    \E e \in Endpoints :
        /\ tcp[e].app_pc = "send"
        /\ ~(SimpleTCPSocket_get_unacked_bytes(tcp[e])
                 >= (IF tcp[e].send_window < tcp[e].cwnd
                     THEN tcp[e].send_window ELSE tcp[e].cwnd))
        /\ LET res == SimpleTCPSocket_send_chunk(tcp[e]) IN
           TCP_Step(e, res.sock, res.out)
        /\ OnlyTCP

\* send starts the retransmission timer
TCP_SendTimer ==
    \E e \in Endpoints :
        /\ tcp[e].app_pc = "send_timer"
        /\ TCP_Step(e, SimpleTCPSocket_send_timer(tcp[e]), <<>>)
        /\ OnlyTCP

\* the application of endpoint e calls recv with one of the buffer sizes
TCP_Recv ==
    \E e \in Endpoints : \E buffer_size \in RecvSizes :
        /\ tcp[e].app_pc = "idle"
        /\ tcp' = [tcp EXCEPT ![e] = SimpleTCPSocket_recv(@, buffer_size).sock]
        /\ UNCHANGED tcp_env
        /\ OnlyTCP

\* one turn of _receive_loop of endpoint e from the segment object g on,
\* built from the datagram sent as p; res is what the turn leaves, worked
\* out once.  TCP_Receive and TCP_ReceiveCorrupt take the fields of the
\* datagram as the segment object, which is the path _process_segment is
\* written for; TCP_WireReceive goes through TCPSegment_deserialize
TCP_ReceiveTurn(e, p, g) ==
    /\ tcp[e].running
    /\ tcp[e].net_pc = "recv"
    /\ \E res \in {IF TCPSegment_is_corrupt(g)
                    THEN [sock |-> tcp[e], out |-> <<>>]
                    ELSE SimpleTCPSocket_process_segment(tcp[e], g)} :
       /\ tcp' = [tcp EXCEPT ![e] = res.sock]
       /\ tcp_env' = [tcp_env EXCEPT
              !.net = [d \in Endpoints |->
                          IF d = e THEN ChannelTake(@[d], p)
                                   ELSE TCP_SendTo(d, @[d], res.out)],
              !.appended[e] =
                  @ \o SubSeq(res.sock.app_data, Len(tcp[e].app_data) + 1,
                              Len(res.sock.app_data))]
    /\ OnlyTCP

\* a segment reaches an endpoint, intact
TCP_Receive ==
    \E e \in Endpoints : \E p \in BagToSet(tcp_env.net[e]) :
        TCP_ReceiveTurn(e, p, p)

\* _receive_loop of endpoint e takes a segment and _process_segment reads
\* current_state; tcp_env.processing[e] holds both until the call goes on
TCP_Latch ==
    \E e \in Endpoints : \E p \in BagToSet(tcp_env.net[e]) :
        /\ tcp[e].running
        /\ tcp[e].net_pc = "recv"
        /\ tcp_env.processing[e] = <<>>
        /\ tcp_env' = [tcp_env EXCEPT
               !.net[e] = ChannelTake(@, p),
               !.processing[e] = <<tcp[e].state, p>>]
        /\ UNCHANGED tcp
        /\ OnlyTCP

\* _process_segment of endpoint e goes on from the branch on current_state
\* to its end
TCP_Process ==
    \E e \in Endpoints :
        /\ tcp_env.processing[e] # <<>>
        /\ \E res \in {SimpleTCPSocket_process_latched(
                           tcp[e], tcp_env.processing[e][1],
                           tcp_env.processing[e][2])} :
           /\ tcp' = [tcp EXCEPT ![e] = res.sock]
           /\ tcp_env' = [tcp_env EXCEPT
                  !.net[Peer(e)] = TCP_SendTo(Peer(e), @, res.out),
                  !.processing[e] = <<>>,
                  !.appended[e] =
                      @ \o SubSeq(res.sock.app_data, Len(tcp[e].app_data) + 1,
                                  Len(res.sock.app_data))]
        /\ OnlyTCP

\* a segment with the flag ACK alone and no data reaches an endpoint that
\* is ESTABLISHED: _process_segment calls only _process_ack, and the
\* receive thread is taken up to its test of send_buffer
TCP_ReceiveAck ==
    \E e \in Endpoints : \E p \in BagToSet(tcp_env.net[e]) :
        /\ tcp[e].running
        /\ tcp[e].net_pc = "recv"
        /\ tcp[e].state = "ESTABLISHED"
        /\ p.flags = FLAG_ACK /\ p.data = NoBytes
        /\ tcp' = [tcp EXCEPT
                      ![e] = SimpleTCPSocket_process_ack_buffer(@, p)]
        /\ tcp_env' = [tcp_env EXCEPT !.net[e] = ChannelTake(@, p)]
        /\ OnlyTCP

\* the receive thread of an endpoint goes on in _process_ack from
\* with self.timer_lock
TCP_StopTimer ==
    \E e \in Endpoints :
        /\ tcp[e].net_pc = "stop_timer"
        /\ tcp' = [tcp EXCEPT
                      ![e] = SimpleTCPSocket_process_ack_stop_timer(@)]
        /\ UNCHANGED tcp_env
        /\ OnlyTCP

\* a segment reaches an endpoint, one of its bytes changed by the channel
TCP_ReceiveCorrupt ==
    \E e \in Endpoints : \E p \in BagToSet(tcp_env.net[e]) :
        \E idx \in SegmentCorruptIdx(p) :
            TCP_ReceiveTurn(e, p, UnreliableChannel_corrupt_segment(p, idx))

\* the channel loses a segment
TCP_Lose ==
    /\ \E e \in Endpoints : \E p \in BagToSet(tcp_env.net[e]) :
           tcp_env' = [tcp_env EXCEPT !.net[e] = ChannelTake(@, p)]
    /\ UNCHANGED tcp
    /\ OnlyTCP

\* the retransmission timer of an endpoint expires: _on_retransmit_timeout
TCP_OnTimeout ==
    \E e \in Endpoints :
        /\ tcp[e].timer = "armed"
        /\ tcp_env.timeouts < MaxRetransmits
        /\ LET res == SimpleTCPSocket_on_retransmit_timeout(tcp[e]) IN
           /\ tcp' = [tcp EXCEPT ![e] = res.sock]
           /\ tcp_env' = [tcp_env EXCEPT
                  !.net[Peer(e)] = TCP_SendTo(Peer(e), @, res.out),
                  !.timeouts = @ + 1]
        /\ OnlyTCP

NextTCP ==
    \/ TCP_Listen
    \/ TCP_Connect
    \/ TCP_ConnectReturn
    \/ TCP_Send
    \/ TCP_SendChunk
    \/ TCP_SendTimer
    \/ TCP_Receive
    \/ TCP_ReceiveCorrupt
    \/ TCP_Lose
    \/ TCP_OnTimeout

\* the application of endpoint e calls close(), once
TCP_Close ==
    \E e \in Endpoints :
        /\ tcp[e].app_pc = "idle"
        /\ tcp_env.closed_by[e] = "no"
        /\ LET res == SimpleTCPSocket_close(tcp[e]) IN
           /\ tcp' = [tcp EXCEPT ![e] = res.sock]
           /\ tcp_env' = [tcp_env EXCEPT
                  !.net = [d \in Endpoints |->
                              IF d = e THEN TCP_Queued(res.sock, @[d])
                                       ELSE TCP_SendTo(d, @[d], res.out)],
                  !.closed_by[e] =
                      IF tcp[e].state = "ESTABLISHED"
                         /\ tcp[Peer(e)].state = "ESTABLISHED"
                      THEN "graceful" ELSE "other"]
        /\ OnlyTCP

\* the wait loop of close ends, on a channel that loses nothing: the state
\* is CLOSED, or the 5 s are over, which takes that no datagram is on its
\* way to a receive thread and that the peer is not between its ACK and its
\* FIN (a datagram is delayed by at most 0.1 s, the peer sleeps 0.1 s)
TCP_CloseReturnInTime ==
    \E e \in Endpoints :
        /\ tcp[e].app_pc = "close"
        /\ \/ tcp[e].state = "CLOSED"
           \/ /\ \A d \in Endpoints :
                    tcp[d].running => tcp_env.net[d] = EmptyBag
              /\ tcp[Peer(e)].net_pc = "recv"
        /\ tcp' = [tcp EXCEPT ![e] = SimpleTCPSocket_close_cleanup(tcp[e])]
        /\ tcp_env' = [tcp_env EXCEPT !.net[e] = EmptyBag]
        /\ OnlyTCP

\* the receive thread of endpoint e wakes up from the sleep before its FIN
TCP_FinReply ==
    \E e \in Endpoints :
        /\ tcp[e].net_pc = "fin_sleep"
        /\ LET res == SimpleTCPSocket_fin_reply(tcp[e]) IN
           TCP_Step(e, res.sock, res.out)
        /\ OnlyTCP

\* the two endpoints over a channel that delays and reorders segments but
\* neither loses nor corrupts them
NextTCPLossless ==
    \/ TCP_Listen
    \/ TCP_Connect
    \/ TCP_ConnectReturnInTime
    \/ TCP_Send
    \/ TCP_SendChunk
    \/ TCP_SendTimer
    \/ TCP_Receive

\* a channel that loses nothing but may hold a segment for any time (a
\* server that starts late answers late), with the receive thread and the
\* application thread of an endpoint interleaved inside _process_segment
NextTCPRace ==
    \/ TCP_Listen
    \/ TCP_Connect
    \/ TCP_ConnectReturn
    \/ TCP_Send
    \/ TCP_SendChunk
    \/ TCP_SendTimer
    \/ TCP_Latch
    \/ TCP_Process

\* a channel that loses nothing, with the application thread in send, the
\* receive thread in _process_ack and the timer thread interleaved
NextTCPTimer ==
    \/ TCP_Listen
    \/ TCP_Connect
    \/ TCP_ConnectReturnInTime
    \/ TCP_Send
    \/ TCP_SendChunk
    \/ TCP_SendTimer
    \/ TCP_Receive
    \/ TCP_ReceiveAck
    \/ TCP_StopTimer
    \/ TCP_OnTimeout

\* a channel that loses nothing, with applications that call recv
NextTCPRecv ==
    \/ NextTCPLossless
    \/ TCP_Recv

\* the same, with applications that close the connection and call send
\* MaxCloseSends times
NextTCPClose ==
    \/ TCP_Listen
    \/ TCP_Connect
    \/ TCP_ConnectReturnInTime
    \/ tcp_env.sends < MaxCloseSends /\ TCP_Send
    \/ TCP_SendChunk
    \/ TCP_SendTimer
    \/ TCP_Receive
    \/ TCP_Close
    \/ TCP_CloseReturnInTime
    \/ TCP_FinReply

\* one turn of _receive_loop of an endpoint from recvfrom on: the datagram
\* p.serialize() arrives as it was sent, deserialize reads it, and the turn
\* ends there for None
TCP_WireReceive ==
    \E e \in Endpoints : \E p \in BagToSet(tcp_env.net[e]) :
        \E segment \in {TCPSegment_deserialize(TCPSegment_serialize(p))} :
            IF segment = None
            THEN /\ tcp[e].running
                 /\ tcp[e].net_pc = "recv"
                 /\ tcp_env' = [tcp_env EXCEPT !.net[e] = ChannelTake(@, p)]
                 /\ UNCHANGED tcp
                 /\ OnlyTCP
            ELSE TCP_ReceiveTurn(e, p, segment)

\* the wait loop of connect ends, on a channel that loses nothing: the
\* state is ESTABLISHED, or the 5 s are over, which takes that no datagram
\* is on its way to a receive thread (a datagram is delayed by at most
\* 0.1 s)
TCP_ConnectReturnWire ==
    /\ \/ tcp["client"].state = "ESTABLISHED"
       \/ \A d \in Endpoints :
              tcp[d].running => tcp_env.net[d] = EmptyBag
    /\ TCP_ConnectReturn

\* the two endpoints from the datagram on, over a channel that neither
\* loses nor corrupts; the specifications above start a turn of
\* _receive_loop at the segment object deserialize returned
NextTCPWire ==
    \/ TCP_Listen
    \/ TCP_Connect
    \/ TCP_ConnectReturnWire
    \/ TCP_Send
    \/ TCP_WireReceive
    \/ TCP_Close

(***************************************************************************)
(* Specifications.                                                         *)
(***************************************************************************)
Init20 ==
    Vars20Init /\ Vars21Init /\ Vars30Init /\ VarsSRInit(1, 1) /\ VarsGBNInit(1)
        /\ VarsTCPInit(0, 0)
Init21 ==
    Vars20Init /\ Vars21Init /\ Vars30Init /\ VarsSRInit(1, 1) /\ VarsGBNInit(1)
        /\ VarsTCPInit(0, 0)
Init30 ==
    Vars20Init /\ Vars21Init /\ Vars30Init /\ VarsSRInit(1, 1) /\ VarsGBNInit(1)
        /\ VarsTCPInit(0, 0)

SpecRDT20 == Init20 /\ [][Next20]_vars

SpecRDT20Reliable == Init20 /\ [][Next20Reliable]_vars

SpecRDT20Short == Init20 /\ [][Next20Short]_vars

SpecRDT21 == Init21 /\ [][Next21]_vars

SpecRDT30 == Init30 /\ [][Next30]_vars

InitSR ==
    /\ Vars20Init /\ Vars21Init /\ Vars30Init /\ VarsGBNInit(1)
    /\ VarsTCPInit(0, 0)
    /\ \E sender_window \in 1..MaxWindow : \E receiver_window \in 1..MaxWindow :
           VarsSRInit(sender_window, receiver_window)

SpecSR == InitSR /\ [][NextSR]_vars

SpecSRLong == InitSR /\ [][NextSRLong]_vars

SpecSRStop == InitSR /\ [][NextSRStop]_vars

SpecSRWindow == InitSR /\ [][NextSRWindow]_vars

InitGBN ==
    /\ Vars20Init /\ Vars21Init /\ Vars30Init /\ VarsSRInit(1, 1)
    /\ VarsTCPInit(0, 0)
    /\ \E window_size \in 1..MaxWindow : VarsGBNInit(window_size)

SpecGBN == InitGBN /\ [][NextGBN]_vars

SpecGBNReceiver == InitGBN /\ [][NextGBNReceiver]_vars

InitTCP ==
    /\ Vars20Init /\ Vars21Init /\ Vars30Init /\ VarsSRInit(1, 1)
    /\ VarsGBNInit(1)
    /\ \E client_isn \in ISNs : \E server_isn \in ISNs :
           VarsTCPInit(client_isn, server_isn)

SpecTCP == InitTCP /\ [][NextTCP]_vars

SpecTCPLossless == InitTCP /\ [][NextTCPLossless]_vars

\* every datagram in flight arrives, the receive threads and the application
\* threads inside a call go on running
FairSpecTCPLossless ==
    /\ SpecTCPLossless
    /\ WF_vars(TCP_ConnectReturnInTime)
    /\ WF_vars(TCP_SendChunk)
    /\ WF_vars(TCP_SendTimer)
    /\ \A e \in Endpoints :
           WF_vars(\E p \in BagToSet(tcp_env.net[e]) : TCP_ReceiveTurn(e, p, p))

SpecTCPRace == InitTCP /\ [][NextTCPRace]_vars

SpecTCPTimer == InitTCP /\ [][NextTCPTimer]_vars

SpecTCPWire == InitTCP /\ [][NextTCPWire]_vars

\* every datagram in flight arrives and the wait loop of connect ends
FairSpecTCPWire ==
    /\ SpecTCPWire
    /\ WF_vars(TCP_ConnectReturnWire)
    /\ WF_vars(TCP_WireReceive)

SpecTCPRecv == InitTCP /\ [][NextTCPRecv]_vars

SpecTCPClose == InitTCP /\ [][NextTCPClose]_vars

FairSpecTCPClose ==
    /\ SpecTCPClose
    /\ WF_vars(TCP_ConnectReturnInTime)
    /\ WF_vars(TCP_SendChunk)
    /\ WF_vars(TCP_SendTimer)
    /\ WF_vars(TCP_CloseReturnInTime)
    /\ WF_vars(TCP_FinReply)
    /\ \A e \in Endpoints :
           WF_vars(\E p \in BagToSet(tcp_env.net[e]) : TCP_ReceiveTurn(e, p, p))

\* the channel is fair (a packet that is sent again and again arrives intact
\* in the end), every thread that can take a step takes it, and the
\* application goes on submitting
FairSpecGBN ==
    /\ SpecGBN
    /\ WF_vars(GBN_ReceiverStart)
    /\ WF_vars(GBN_Send)
    /\ WF_vars(GBN_SendLocked)
    /\ WF_vars(GBN_StartTimer)
    /\ SF_vars(GBN_ReceiverGets)
    /\ SF_vars(GBN_SenderGets)

\* the channel is fair to the oldest unacknowledged packet (sent again and
\* again, it arrives intact in the end, and so does its ACK), its timer
\* expires when it stays armed, the timer thread that asks for the lock gets
\* it, and the application goes on submitting
FairSpecSR ==
    /\ SpecSR
    /\ WF_vars(SR_Send)
    /\ SF_vars(\E p \in BagToSet(sr_env.to_receiver) :
                   p.seq_num = sr_sender.base /\ SR_ReceiverTurn(p, p))
    /\ SF_vars(\E p \in BagToSet(sr_env.to_sender) :
                   p.seq_num = sr_sender.base /\ SR_SenderTurn(p, p))
    /\ WF_vars(SR_TimerExpiresFor(sr_sender.base))
    /\ WF_vars(SR_OnTimeoutFor(sr_sender.base))

\* the channel does not corrupt every packet forever, and the application
\* goes on submitting
FairSpecRDT21 ==
    /\ SpecRDT21
    /\ WF_vars(RDT21_Send)
    /\ SF_vars(RDT21_ReceiverGets)
    /\ SF_vars(RDT21_SenderGets)

(***************************************************************************)
(* Claims.                                                                 *)
(***************************************************************************)
\* C10: rdt2.0 over a lossless, corrupting channel: the delivered list is a
\* prefix of the submitted messages, and after n sends have returned exactly
\* n messages have been delivered.
C10_RDT20_DeliveredIsPrefix ==
    /\ IsPrefix(rdt20_receiver.received_messages, rdt20_env.submitted)
    /\ rdt20_sender.state = "WAIT_CALL"
         => Len(rdt20_receiver.received_messages) = rdt20_env.returned

\* C9: rdt2.1 over a lossless channel that corrupts DATA, ACK and NAK packets:
\* the receiver never appends a submitted message twice; its delivered list
\* is always a prefix of the submitted messages.
C9_RDT21_DeliveredIsPrefix ==
    IsPrefix(rdt21_receiver.received_messages, rdt21_env.submitted)

\* a retransmitted DATA packet reached the receiver, which had delivered it
C9_Witness ==
    /\ rdt21_receiver.duplicated_packets > 0
    /\ Len(rdt21_receiver.received_messages) > 0

\* C8: rdt2.1 under corruption in both directions, when the channel does not
\* corrupt every packet forever: every send call returns, and then all the
\* submitted messages have been delivered.
C8_RDT21_SendReturns ==
    rdt21_sender.waiting ~>
        (/\ ~rdt21_sender.waiting
         /\ rdt21_receiver.received_messages = rdt21_env.submitted)

\* C6: rdt3.0 over a channel that loses, corrupts, delays and reorders DATA
\* and ACK packets: the list delivered by the receiver is always a prefix of
\* the list of messages passed to send.
C6_RDT30_DeliveredIsPrefix ==
    IsPrefix(rdt30_receiver.received_messages, rdt30_env.submitted)

\* C7: the rdt3.0 sender never advances past an unacknowledged packet: when
\* send(m) has returned, the receiver has delivered m.
C7_RDT30_ReturnedIsDelivered ==
    \A m \in 1..rdt30_env.returned :
        \E i \in 1..Len(rdt30_receiver.received_messages) :
            rdt30_receiver.received_messages[i] = m

\* C3: Selective Repeat receiver, for any arrival order and any number of
\* repeated arrivals: delivered_messages is exactly the payloads of seq
\* 0..rcv_base-1 in increasing seq order, each once.
C3_SR_DeliveredIsInOrder ==
    /\ Len(sr_receiver.delivered_messages) = sr_receiver.rcv_base
    /\ \A i \in 1..Len(sr_receiver.delivered_messages) :
           sr_receiver.delivered_messages[i] = sr_env.submitted[i]

\* the receiver holds back a payload that arrived ahead of a gap, after it
\* has acknowledged a packet twice (the packet arrived twice)
C3_Witness ==
    /\ DOMAIN sr_receiver.receive_buffer # {}
    /\ sr_receiver.rcv_base > 0
    /\ \E q \in 0..(MaxMsgs - 1) :
           CopiesIn(RDTPacket(ACK, q, NoData), sr_env.to_sender) >= 2

\* C4: Selective Repeat end to end over a lossy, corrupting, reordering but
\* fair channel: in the end base = next_seq_num = the number of messages
\* sent, and the receiver has delivered all of them in send order.
C4_SR_Completes ==
    <>[](/\ sr_sender.base = Len(sr_env.submitted)
         /\ sr_sender.next_seq_num = Len(sr_env.submitted)
         /\ sr_receiver.delivered_messages = sr_env.submitted)

\* all the messages arrived although a packet had to be retransmitted
C4_Witness ==
    /\ sr_sender.base = MaxMsgs
    /\ sr_sender.next_seq_num = MaxMsgs
    /\ sr_receiver.delivered_messages = sr_env.submitted
    /\ \E p \in BagToSet(sr_env.to_receiver) : p.type = DATA

\* C5: Go-Back-N end to end over a lossy, corrupting but fair channel: every
\* send call returns, and in the end base = next_seq_num = the number of
\* messages sent and the receiver has delivered all of them in send order.
C5_GBN_Completes ==
    /\ [](gbn_sender.app_pc # "idle" => <>(gbn_sender.app_pc = "idle"))
    /\ <>[](/\ gbn_sender.base = Len(gbn_env.submitted)
            /\ gbn_sender.next_seq_num = Len(gbn_env.submitted)
            /\ gbn_receiver.received_messages = gbn_env.submitted)

\* the chunks are the bytes from, from + 1, ... of a stream of total bytes,
\* with no gap and no repetition
RECURSIVE IsStreamPrefix(_, _, _)
IsStreamPrefix(chunks, from, total) ==
    \/ chunks = <<>>
    \/ /\ Head(chunks)[1] = from
       /\ Head(chunks)[2] > 0
       /\ from + Head(chunks)[2] - 1 <= total
       /\ IsStreamPrefix(Tail(chunks), from + Head(chunks)[2], total)

RECURSIVE StreamLen(_)
StreamLen(chunks) ==
    IF chunks = <<>> THEN 0 ELSE Head(chunks)[2] + StreamLen(Tail(chunks))

\* C1: SimpleTCPSocket under loss, corruption, delay, reordering and
\* retransmission: the chunks an endpoint appended to app_data, in append
\* order, are a prefix of the bytes its peer passed to send.
C1_TCP_DeliveredIsPrefix ==
    \A e \in Endpoints :
        IsStreamPrefix(tcp_env.appended[e], 1, tcp_env.submitted[Peer(e)])

\* two segments were delivered in order although the second had arrived
\* first, and a retransmitted copy of a delivered segment arrived after
C1_Witness ==
    \E e \in Endpoints :
        /\ Len(tcp_env.appended[e]) >= 2
        /\ tcp_env.timeouts > 0
        /\ \E q \in DOMAIN tcp[e].recv_buffer : q <= tcp[e].peer_seq_num
        /\ tcp[e].ack_num < tcp[e].peer_seq_num + 1

\* C2: SimpleTCPSocket reliable delivery under loss, with both endpoints
\* ESTABLISHED from before the first send: every byte accepted by send is
\* appended to the peer's app_data in the end.  So when nothing is left that
\* can deliver a byte (no segment in flight, both send buffers empty, no send
\* call in progress), the bytes appended are the bytes sent.
C2_TCP_AllDelivered ==
    (/\ ~tcp_env.early
     /\ \A e \in Endpoints :
        /\ tcp[e].state = "ESTABLISHED"
        /\ tcp[e].app_pc = "idle"
        /\ tcp[e].send_buffer = <<>>
        /\ tcp_env.net[e] = EmptyBag)
    => \A e \in Endpoints :
           StreamLen(tcp_env.appended[e]) = tcp_env.submitted[Peer(e)]

\* C11: three-way handshake over a channel that loses nothing, with a server
\* that called listen(): connect() returns True, the client is ESTABLISHED
\* when it returns, and the server is ESTABLISHED in the end; an endpoint
\* that becomes ESTABLISHED has ack_num = the peer's ISN + 1 and numbers its
\* first data byte ISN + 1.
C11_TCP_Handshake ==
    /\ <>[](/\ tcp["client"].running /\ tcp["server"].running
             /\ tcp_env.connected # "False"
             => /\ tcp_env.connected = "True"
                /\ tcp["server"].state = "ESTABLISHED")
    /\ [][/\ tcp_env.connected # tcp_env.connected' /\ tcp["server"].running
             => /\ tcp_env.connected' = "True"
                /\ tcp["client"].state' = "ESTABLISHED"
          /\ \A e \in Endpoints :
               tcp[e].state # "ESTABLISHED" /\ tcp[e].state' = "ESTABLISHED"
                 => /\ tcp[e].ack_num' = tcp_env.isn[Peer(e)] + 1
                    /\ tcp[e].seq_num' = tcp_env.isn[e] + 1]_vars

\* connect returned True and both endpoints are ESTABLISHED, their initial
\* sequence numbers different
C11_Witness ==
    /\ tcp_env.connected = "True"
    /\ tcp_env.isn["client"] # tcp_env.isn["server"]
    /\ \A e \in Endpoints :
         /\ tcp[e].state = "ESTABLISHED"
         /\ tcp[e].ack_num = tcp_env.isn[Peer(e)] + 1
         /\ tcp[e].seq_num = tcp_env.isn[e] + 1

\* endpoint e called close() in ESTABLISHED while its peer was ESTABLISHED,
\* and the peer did not call close()
GracefulClose(e) ==
    /\ tcp_env.closed_by[e] = "graceful"
    /\ tcp_env.closed_by[Peer(e)] = "no"

C13_TCP_SendNotConnected ==
    /\ [](\A e \in Endpoints : \A n \in SendSizes :
            tcp[e].state # "ESTABLISHED" =>
              LET res == SimpleTCPSocket_send(tcp[e],
                                              tcp_env.submitted[e] + 1, n) IN
              /\ res.ret = 0
              /\ res.sock = tcp[e])
    /\ [][tcp_env.sends' # tcp_env.sends =>
            /\ \A e \in Endpoints :
                 tcp[e]' # tcp[e] => tcp[e].state = "ESTABLISHED"
            /\ tcp_env.net' = tcp_env.net
            /\ tcp' = tcp => tcp_env.submitted' = tcp_env.submitted]_vars

\* a send() call was refused (nothing was ever accepted) and the connection
\* has since been closed: one endpoint is past close(), the other CLOSED
\* with nothing sent
C13_Witness ==
    /\ tcp_env.sends > 0
    /\ \A e \in Endpoints :
         /\ tcp_env.submitted[e] = 0
         /\ tcp[e].bytes_sent = 0
         /\ tcp[e].send_buffer = <<>>
         /\ tcp[e].state = "CLOSED"
    /\ \E e \in Endpoints : GracefulClose(e)

\* C14: recv(buffer_size) returns at most buffer_size bytes, removes exactly
\* the returned bytes from the delivered queue and leaves the rest queued in
\* order: in every reachable state, for every buffer size, what recv returns
\* is no longer than buffer_size and, followed by what stays in app_data, is
\* the app_data of before.
C14_TCP_RecvAtMost ==
    \A e \in Endpoints : \A buffer_size \in RecvSizes :
        LET res == SimpleTCPSocket_recv(tcp[e], buffer_size) IN
        /\ StreamLen(res.data) <= buffer_size
        /\ res.data \o res.sock.app_data = tcp[e].app_data

\* C15: flow control ceiling: in every reachable state the payload bytes an
\* endpoint has transmitted and not yet seen acknowledged are at most
\* min(send_window, cwnd).
C15_TCP_FlowControlCeiling ==
    \A e \in Endpoints :
        SimpleTCPSocket_get_unacked_bytes(tcp[e])
            <= (IF tcp[e].send_window < tcp[e].cwnd THEN tcp[e].send_window
                ELSE tcp[e].cwnd)

\* the payload bytes held in recv_buffer, received and not yet delivered
RECURSIVE BufferedBytes(_)
BufferedBytes(recv_buffer) ==
    IF DOMAIN recv_buffer = {} THEN 0
    ELSE LET q == CHOOSE x \in DOMAIN recv_buffer : TRUE IN
         recv_buffer[q][2]
           + BufferedBytes([x \in DOMAIN recv_buffer \ {q} |-> recv_buffer[x]])

\* C16: every segment an endpoint sends advertises as window the buffer
\* capacity minus the bytes its receive buffer holds undelivered: a segment
\* that a step puts on the channel carries window_size = 4096 minus the
\* bytes in the sender's recv_buffer after the step.
C16_TCP_AdvertisedWindow ==
    [][\A e \in Endpoints : \A g \in BagToSet(tcp_env.net[Peer(e)]') :
         CopiesIn(g, tcp_env.net[Peer(e)]') > CopiesIn(g, tcp_env.net[Peer(e)])
           => g.window_size = InitialWindow - BufferedBytes(tcp[e].recv_buffer')
      ]_vars

\* C17: every ACK sent in response to a data segment carries the next
\* expected in-order byte: a segment without data and with the flag ACK alone
\* that an endpoint, ESTABLISHED before and after the step, puts on the
\* channel (the ACK of _receive_data) has ack_num = peer_seq_num + 1, one past
\* the last byte delivered in order.
C17_TCP_AckIsNextExpected ==
    [][\A e \in Endpoints : \A g \in BagToSet(tcp_env.net[Peer(e)]') :
         /\ CopiesIn(g, tcp_env.net[Peer(e)]')
              > CopiesIn(g, tcp_env.net[Peer(e)])
         /\ tcp[e].state = "ESTABLISHED" /\ tcp[e].state' = "ESTABLISHED"
         /\ g.flags = FLAG_ACK /\ g.data = NoBytes
         => g.ack_num = tcp[e].peer_seq_num' + 1
      ]_vars

\* the entries of endpoint e's send_buffer that the step removes
TCP_Removed(e) ==
    {i \in 1..Len(tcp[e].send_buffer) :
        \A j \in 1..Len(tcp[e].send_buffer') :
            tcp[e].send_buffer'[j].seq # tcp[e].send_buffer[i].seq}

\* C18: Karn's rule: estimated_rtt and dev_rtt are updated only from the
\* acknowledgment of entries transmitted exactly once: in every step the
\* number of RTT updates is the number of removed send_buffer entries that
\* were never retransmitted.
C18_TCP_KarnsRule ==
    [][\A e \in Endpoints :
         tcp[e].rtt_samples' =
             tcp[e].rtt_samples
               + Cardinality({i \in TCP_Removed(e) :
                                 tcp[e].send_buffer[i].time = "sent"})
      ]_vars

\* C19: connect() that gave up and returned False leaves the state CLOSED
\* for good, whatever SYN+ACK is being processed or arrives later, and
\* connect() returns True only with the state ESTABLISHED (which no step of
\* this specification leaves).
C19_TCP_ConnectFailure ==
    /\ tcp_env.connected = "False" => tcp["client"].state = "CLOSED"
    /\ tcp_env.connected = "True" => tcp["client"].state = "ESTABLISHED"

\* C20: SR receiver window: the reorder buffer holds only sequence numbers
\* strictly between rcv_base and rcv_base + N, and for every intact packet on
\* its way to the receiver, one turn of _receive_loop delivers or buffers
\* only if rcv_base <= seq < rcv_base + N, does nothing at all (no ACK) if
\* seq >= rcv_base + N, and only sends the ACK again if seq < rcv_base.
C20_SR_ReceiverWindow ==
    /\ \A q \in DOMAIN sr_receiver.receive_buffer :
         /\ sr_receiver.rcv_base < q
         /\ q < sr_receiver.rcv_base + sr_receiver.window_size
    /\ \A p \in BagToSet(sr_env.to_receiver) :
         ~RDTPacket_is_corrupt(p) =>
           LET res == SRReceiver_receive_loop(sr_receiver, p)
               seq_num == p.seq_num
               rcv_base == sr_receiver.rcv_base
               N == sr_receiver.window_size IN
           /\ \/ res.rcv.delivered_messages # sr_receiver.delivered_messages
              \/ res.rcv.receive_buffer # sr_receiver.receive_buffer
              => rcv_base <= seq_num /\ seq_num < rcv_base + N
           /\ seq_num >= rcv_base + N
                => res = [rcv |-> sr_receiver, out |-> <<>>]
           /\ seq_num < rcv_base
                => /\ res.rcv = sr_receiver
                   /\ res.out = <<RDTPacket(ACK, seq_num, NoData)>>

\* the receiver has delivered a message, and both a packet beyond its
\* window and a packet below rcv_base are on their way to it
C20_Witness ==
    /\ sr_receiver.rcv_base > 0
    /\ \E p \in BagToSet(sr_env.to_receiver) :
         /\ ~RDTPacket_is_corrupt(p)
         /\ p.seq_num >= sr_receiver.rcv_base + sr_receiver.window_size
    /\ \E p \in BagToSet(sr_env.to_receiver) :
         /\ ~RDTPacket_is_corrupt(p)
         /\ p.seq_num < sr_receiver.rcv_base

\* C21: a receiver with sequence numbers that gets an intact DATA packet whose
\* sequence number it has delivered and acknowledged before sends an ACK
\* again and appends nothing to its delivered list: for every such packet on
\* its way to the RDT2.1, RDT3.0, GBN or SR receiver, one turn of
\* _receive_loop leaves the delivered list as it is and sends one packet, of
\* type ACK.
C21_DuplicateIsAckedAgain ==
    /\ \A p \in BagToSet(rdt21_env.to_receiver) :
         /\ ~RDTPacket_is_corrupt(p)
         /\ rdt21_receiver.received_messages # <<>>
         /\ p.seq_num = rdt21_receiver.last_ack_sent
         => LET res == RDT21Receiver_receive_loop(rdt21_receiver, p) IN
            /\ res.rcv.received_messages = rdt21_receiver.received_messages
            /\ Len(res.out) = 1 /\ res.out[1].type = ACK
    /\ \A p \in BagToSet(rdt30_env.to_receiver) :
         /\ ~RDTPacket_is_corrupt(p)
         /\ rdt30_receiver.received_messages # <<>>
         /\ p.seq_num = rdt30_receiver.last_ack_sent
         => LET res == RDT30Receiver_receive_loop(rdt30_receiver, p) IN
            /\ res.rcv.received_messages = rdt30_receiver.received_messages
            /\ Len(res.out) = 1 /\ res.out[1].type = ACK
    /\ \A p \in BagToSet(gbn_env.to_receiver) :
         /\ ~RDTPacket_is_corrupt(p)
         /\ p.seq_num < gbn_receiver.expected_seq_num
         => LET res == GBNReceiver_receive_loop(gbn_receiver, p) IN
            /\ res.rcv.received_messages = gbn_receiver.received_messages
            /\ Len(res.out) = 1 /\ res.out[1].type = ACK
    /\ \A p \in BagToSet(sr_env.to_receiver) :
         /\ ~RDTPacket_is_corrupt(p)
         /\ p.seq_num < sr_receiver.rcv_base
         => LET res == SRReceiver_receive_loop(sr_receiver, p) IN
            /\ res.rcv.delivered_messages = sr_receiver.delivered_messages
            /\ Len(res.out) = 1 /\ res.out[1].type = ACK

\* C22: GBN receiver: received_messages is the payloads of the sequence
\* numbers 0..expected_seq_num - 1 in order (message number k carries k + 1),
\* and for every packet on its way to the receiver, as sent or with a byte
\* changed, a turn of _receive_loop on a corrupt packet or on one whose
\* sequence number is not expected_seq_num delivers nothing, leaves
\* expected_seq_num and answers ACK(expected_seq_num - 1), or nothing while
\* expected_seq_num is 0.
C22_GBN_ReceiverInOrder ==
    /\ gbn_receiver.received_messages
         = [k \in 1..gbn_receiver.expected_seq_num |-> k]
    /\ \A p \in BagToSet(gbn_env.to_receiver) :
         \A g \in {p} \cup {UnreliableChannel_corrupt_packet(p, idx) :
                               idx \in CorruptIdxOf(p)} :
           RDTPacket_is_corrupt(g) \/ g.seq_num # gbn_receiver.expected_seq_num
           => LET res == GBNReceiver_receive_loop(gbn_receiver, g) IN
              /\ res.rcv.received_messages = gbn_receiver.received_messages
              /\ res.rcv.expected_seq_num = gbn_receiver.expected_seq_num
              /\ res.out = IF gbn_receiver.expected_seq_num > 0
                           THEN <<RDTPacket(ACK,
                                            gbn_receiver.expected_seq_num - 1,
                                            NoData)>>
                           ELSE <<>>

\* the receiver has delivered two messages, has seen a packet out of order
\* and a corrupt one, and a packet it does not expect is on its way to it
C22_Witness ==
    /\ gbn_receiver.expected_seq_num = 2
    /\ gbn_receiver.received_messages = <<1, 2>>
    /\ gbn_receiver.out_of_order_packets > 0
    /\ gbn_receiver.corrupted_packets > 0
    /\ \E p \in BagToSet(gbn_env.to_receiver) :
         p.seq_num # gbn_receiver.expected_seq_num

\* C23: a sender can transfer any number of messages: every sequence number
\* it assigns fits the one-byte seq field, so the packet of the next message
\* can always be built and no send() fails.
C23_SR_SeqNumFits ==
    /\ RDTPacket_fits(DATA, sr_sender.next_seq_num)
    /\ ~sr_env.raised

\* C24: the codec round trip.  For an RDT packet and for a TCP segment x,
\* deserialize(x.serialize()) has the fields of x and is not corrupt; for
\* a byte string b of at least the header length, deserialize(b) is an
\* object and its serialize() is b again.  The RDT packets are those of
\* the three types, both alternating sequence numbers and every payload,
\* intact and with one byte changed; the TCP segments are those in flight.
C24_CodecRoundTrip ==
    /\ \A type \in {DATA, ACK, NAK} : \A seq_num \in 0..1 :
         \A data \in {NoData} \cup (1..MaxMsgs) :
           LET x == RDTPacket(type, seq_num, data)
               y == RDTPacket_deserialize(RDTPacket_serialize(x))
           IN  /\ y # None
               /\ y = x
               /\ ~RDTPacket_is_corrupt(y)
               /\ \A idx \in CorruptIdxOf(x) :
                    LET b == RDTPacket_serialize(
                                 UnreliableChannel_corrupt_packet(x, idx))
                    IN  /\ RDTPacket_deserialize(b) # None
                        /\ RDTPacket_serialize(RDTPacket_deserialize(b)) = b
    /\ \A e \in Endpoints : \A x \in BagToSet(tcp_env.net[e]) :
         LET b == TCPSegment_serialize(x)
             y == TCPSegment_deserialize(b)
         IN  /\ BytesLen(b, TCPWidths) >= TCPHeaderSize
             /\ y # None
             /\ y = x
             /\ ~TCPSegment_is_corrupt(y)
             /\ TCPSegment_serialize(y) = b

\* C25: a datagram shorter than the header, for which deserialize returns
\* None, is discarded by the endpoint that receives it: no error reaches the
\* application, the endpoint's protocol state is as before (a receiver has
\* counted the datagram in packets_received) and nothing is sent; the
\* rdt2.0 sender waiting for its ACK or NAK is one of these endpoints.
C25_MalformedIsDiscarded ==
    /\ ~rdt20_env.raised
    /\ \A packet_bytes \in ShortDatagrams :
         /\ RDT20Receiver_on_datagram(rdt20_receiver, packet_bytes)
                = [rcv |-> [rdt20_receiver EXCEPT !.packets_received = @ + 1],
                   out |-> <<>>]
         /\ rdt20_sender.state = "WAIT_ACK" =>
              RDT20Sender_on_datagram(rdt20_sender, packet_bytes)
                = [snd |-> rdt20_sender, out |-> <<>>, raised |-> FALSE]

\* C26: rdt2.0 over a channel that neither loses nor corrupts, for any list
\* of messages sent one after another: every send() has put its packet on
\* the channel once (packets_sent is the number of calls), retransmissions
\* stays 0, the first response to arrive is an ACK and ends the call, and
\* the receiver's list is the list sent, in order, whenever no call is in
\* progress (and a prefix of it during a call).
C26_RDT20_PerfectChannel ==
    /\ rdt20_sender.retransmissions = 0
    /\ rdt20_sender.naks_received = 0
    /\ rdt20_sender.packets_sent = Len(rdt20_env.submitted)
    /\ rdt20_sender.acks_received = rdt20_env.returned
    /\ \A p \in BagToSet(rdt20_env.to_sender) :
         /\ rdt20_sender.state = "WAIT_ACK"
         /\ RDT20Sender_on_response(rdt20_sender, p)
                = [snd |-> [rdt20_sender EXCEPT !.state = "WAIT_CALL",
                                                !.acks_received = @ + 1],
                   out |-> <<>>]
    /\ IF rdt20_sender.state = "WAIT_CALL"
       THEN /\ rdt20_receiver.received_messages = rdt20_env.submitted
            /\ rdt20_env.returned = Len(rdt20_env.submitted)
       ELSE /\ rdt20_env.returned = Len(rdt20_env.submitted) - 1
            /\ rdt20_receiver.received_messages \in
                   {rdt20_env.submitted,
                    SubSeq(rdt20_env.submitted, 1,
                           Len(rdt20_env.submitted) - 1)}

\* four messages were sent, the same payload twice among them, and the last
\* send has returned
C26_Witness ==
    /\ rdt20_sender.state = "WAIT_CALL"
    /\ rdt20_env.returned = MaxListLen
    /\ rdt20_env.submitted = <<2, 1, 1, 3>>
    /\ rdt20_receiver.received_messages = <<2, 1, 1, 3>>
    /\ rdt20_sender.packets_sent = MaxListLen

\* C27: GBNSender is free of deadlock on its lock: no thread asks for the
\* lock while it holds it itself (the application thread in send is never
\* inside the acquire of _start_timer with the lock taken by send), so a
\* send() that found room in the window returns.
C27_GBN_NoSelfDeadlock ==
    ~(/\ gbn_sender.app_pc = "start_timer_lock"
      /\ gbn_sender.lock = "app")

\* C28: the retransmission timer of SimpleTCPSocket under every
\* interleaving of the application thread in send, the receive thread in
\* _process_ack and the timer thread: whenever send_buffer holds an entry
\* and no send() call is in progress, a timer is armed.
C28_TCP_TimerArmed ==
    \A e \in Endpoints :
        tcp[e].send_buffer # <<>> /\ tcp[e].app_pc = "idle"
            => tcp[e].timer = "armed"

\* C29: a send() call suspended on a full window returns once the
\* connection has left ESTABLISHED: no endpoint stays for ever inside send,
\* waiting for room in the window, in a state other than ESTABLISHED.
C29_TCP_SuspendedSendReturns ==
    \A e \in Endpoints :
        <>[](~(tcp[e].app_pc = "send" /\ tcp[e].state # "ESTABLISHED"))

\* C30: every change of SimpleTCPSocket.state, under every interleaving of
\* the application calls and of the receive thread, started from CLOSED, is
\* one of the thirteen edges CLOSED->LISTEN, CLOSED->SYN_SENT,
\* LISTEN->SYN_RECEIVED, SYN_SENT->ESTABLISHED, SYN_SENT->CLOSED,
\* SYN_RECEIVED->ESTABLISHED, ESTABLISHED->FIN_WAIT_1,
\* FIN_WAIT_1->FIN_WAIT_2, FIN_WAIT_1->CLOSED, FIN_WAIT_2->CLOSED,
\* ESTABLISHED->CLOSE_WAIT, CLOSE_WAIT->LAST_ACK, LAST_ACK->CLOSED.
C30_TCP_StateEdges ==
    [][\A e \in Endpoints :
         tcp[e].state' # tcp[e].state =>
           <<tcp[e].state, tcp[e].state'>> \in
               {<<"CLOSED", "LISTEN">>, <<"CLOSED", "SYN_SENT">>,
                <<"LISTEN", "SYN_RECEIVED">>, <<"SYN_SENT", "ESTABLISHED">>,
                <<"SYN_SENT", "CLOSED">>, <<"SYN_RECEIVED", "ESTABLISHED">>,
                <<"ESTABLISHED", "FIN_WAIT_1">>,
                <<"FIN_WAIT_1", "FIN_WAIT_2">>, <<"FIN_WAIT_1", "CLOSED">>,
                <<"FIN_WAIT_2", "CLOSED">>, <<"ESTABLISHED", "CLOSE_WAIT">>,
                <<"CLOSE_WAIT", "LAST_ACK">>, <<"LAST_ACK", "CLOSED">>}
      ]_vars

\* C31: a socket in FIN_WAIT_1 goes to FIN_WAIT_2 only on a segment whose
\* ack number acknowledges its FIN (ack_num = FIN seq + 1, the seq_num of
\* the socket after close): for every intact segment on its way to such a
\* socket that has the flag ACK, not the flag FIN, and a lower ack number,
\* _process_segment leaves the state FIN_WAIT_1.
C31_TCP_FinWait1NeedsFinAck ==
    \A e \in Endpoints : \A p \in BagToSet(tcp_env.net[e]) :
        /\ tcp[e].state = "FIN_WAIT_1"
        /\ ~TCPSegment_is_corrupt(p)
        /\ TCPSegment_has_flag(p, FLAG_ACK)
        /\ ~TCPSegment_has_flag(p, FLAG_FIN)
        /\ p.ack_num < tcp[e].seq_num
        => SimpleTCPSocket_process_segment(tcp[e], p).sock.state
               = "FIN_WAIT_1"

\* C32: bytes in the application queue are never lost: in every reachable
\* state of a socket whose application has not called close, the states
\* LAST_ACK and CLOSED after the peer's FIN included, a call of recv with a
\* positive buffer size while app_data is not empty returns queued bytes.
C32_TCP_RecvReturnsQueued ==
    \A e \in Endpoints : \A buffer_size \in RecvSizes :
        /\ tcp[e].app_data # <<>>
        /\ tcp_env.closed_by[e] = "no"
        /\ buffer_size > 0
        => SimpleTCPSocket_recv(tcp[e], buffer_size).data # <<>>

\* C33: whenever close() has returned the state is CLOSED, whatever the
\* state it was called in: a socket whose application is past the end of
\* close() is in the state CLOSED.
C33_TCP_CloseEndsClosed ==
    \A e \in Endpoints :
        tcp[e].app_pc = "closed" => tcp[e].state = "CLOSED"

\* C34: once SRSender.stop() has returned there is no further
\* retransmission and no new timer, also for a timer callback that had
\* fired before and was waiting for the lock: on a stopped sender no timer
\* is armed, and _on_timeout of every waiting callback sends nothing and
\* changes nothing but its own end.
C34_SR_StopIsFinal ==
    ~sr_sender.running =>
        /\ \A q \in DOMAIN sr_sender.send_buffer :
               sr_sender.send_buffer[q].timer # "armed"
        /\ \A seq_num \in sr_sender.expired :
               SRSender_on_timeout(sr_sender, seq_num)
                   = [snd |-> [sr_sender EXCEPT !.expired = @ \ {seq_num}],
                      out |-> <<>>]

\* C35: ACK handling of the GBN sender is cumulative: for every intact
\* ACK(n) the ACK thread has taken, _handle_ack runs to its end; with
\* n >= base it leaves exactly the entries with seq > n, base = n + 1, and
\* the timer running iff the buffer is not empty; with n < base it changes
\* neither base nor the buffer; and a corrupt ACK changes neither.
C35_GBN_CumulativeAck ==
    /\ gbn_sender.ack_pc = "handle_ack_lock" =>
           LET n == gbn_sender.ack_num
               res == GBNSender_handle_ack(gbn_sender) IN
           /\ res.ack_pc = "recv"
           /\ IF n >= gbn_sender.base
              THEN /\ res.base = n + 1
                   /\ res.send_buffer =
                          SelectSeq(gbn_sender.send_buffer,
                                    LAMBDA pkt : pkt.seq_num > n)
                   /\ res.timer_running <=> res.send_buffer # <<>>
              ELSE /\ res.base = gbn_sender.base
                   /\ res.send_buffer = gbn_sender.send_buffer
    /\ gbn_sender.ack_pc = "recv" =>
           \A p \in BagToSet(gbn_env.to_sender) : \A idx \in CorruptIdxOf(p) :
               GBNSender_ack_receive_loop(
                   gbn_sender, UnreliableChannel_corrupt_packet(p, idx))
                   = gbn_sender

\* C36: a timeout of the GBN sender with unacknowledged packets: _on_timeout
\* sends every packet of the buffer again in increasing seq order, comes to
\* its end, and the timer is running again afterwards.
C36_GBN_TimeoutResendsWindow ==
    gbn_sender.send_buffer # <<>> =>
        LET res == GBNSender_on_timeout(gbn_sender) IN
        /\ res.out = gbn_sender.send_buffer
        /\ \A i \in 1..(Len(res.out) - 1) :
               res.out[i].seq_num < res.out[i + 1].seq_num
        /\ res.returns
        /\ res.snd.timer_running
        /\ res.snd.timer = "armed"

\* C37: the sliding-window bound of SRSender and GBNSender, with send()
\* interleaved with the ACK thread: base <= next_seq_num <= base +
\* window_size in every reachable state, and with a window of one packet at
\* most one packet is sent and not acknowledged.
C37_WindowBound ==
    /\ sr_sender.base <= sr_sender.next_seq_num
    /\ sr_sender.next_seq_num <= sr_sender.base + sr_sender.window_size
    /\ sr_sender.window_size = 1 =>
           Cardinality({q \in DOMAIN sr_sender.send_buffer :
                           ~sr_sender.send_buffer[q].acked}) <= 1
    /\ gbn_sender.base <= gbn_sender.next_seq_num
    /\ gbn_sender.next_seq_num <= gbn_sender.base + gbn_sender.window_size
    /\ gbn_sender.window_size = 1 => Len(gbn_sender.send_buffer) <= 1

\* the SR window is full after it has moved: send waits, and an ACK arrives
\* while the application thread stands before the lock of an earlier send
C37_Witness ==
    /\ sr_sender.base > 0
    /\ sr_sender.next_seq_num = sr_sender.base + sr_sender.window_size
    /\ sr_env.app_pc = "idle"
    /\ Len(sr_env.submitted) < MaxMsgs

\* C38: selective retransmission of the SR sender: for every timer thread
\* that has entered _on_timeout(k) and waits for the lock, the handler
\* sends nothing but packet k and touches no entry but entry k; with entry
\* k in the buffer and not acked it sends packet k once and arms the timer
\* of k; once the ACK for k is processed (entry k acked, or removed) it
\* sends nothing and leaves every timer as it is.
C38_SR_SelectiveRetransmit ==
    \A k \in sr_sender.expired :
        LET res == SRSender_on_timeout(sr_sender, k)
            buf == sr_sender.send_buffer IN
        /\ DOMAIN res.snd.send_buffer = DOMAIN buf
        /\ \A q \in DOMAIN buf \ {k} : res.snd.send_buffer[q] = buf[q]
        /\ IF k \in DOMAIN buf /\ ~buf[k].acked
           THEN /\ res.out = <<buf[k].packet>>
                /\ buf[k].packet.seq_num = k
                /\ res.snd.send_buffer[k].timer = "armed"
           ELSE /\ res.out = <<>>
                /\ res.snd.send_buffer = buf

\* the timer of an entry fired and its ACK was processed before the timer
\* thread got the lock, with another packet still unacknowledged
C38_Witness ==
    \E k \in sr_sender.expired :
        /\ k \in DOMAIN sr_sender.send_buffer => sr_sender.send_buffer[k].acked
        /\ \E q \in DOMAIN sr_sender.send_buffer \ {k} :
               /\ ~sr_sender.send_buffer[q].acked
               /\ sr_sender.send_buffer[q].timer = "armed"

\* C39: window bookkeeping of the SR sender: the keys of send_buffer are
\* exactly base..next_seq_num-1; the entry at base is not acked when the
\* buffer is not empty; an intact ACK for a seq that is not in the buffer or
\* is acked already changes nothing; and an ACK moves base only over entries
\* that are acked, its own included.
C39_SR_WindowBookkeeping ==
    LET buf == sr_sender.send_buffer IN
    /\ DOMAIN buf = sr_sender.base..(sr_sender.next_seq_num - 1)
    /\ buf # << >> => ~buf[sr_sender.base].acked
    /\ \A p \in BagToSet(sr_env.to_sender) :
           LET res == SRSender_ack_receive_loop(sr_sender, p) IN
           /\ p.seq_num \notin DOMAIN buf => res = sr_sender
           /\ p.seq_num \in DOMAIN buf /\ buf[p.seq_num].acked
                  => res = sr_sender
           /\ \A q \in sr_sender.base..(res.base - 1) :
                  q = p.seq_num \/ buf[q].acked

\* an ACK for an entry above base was processed and a second ACK for that
\* entry is on its way to the sender
C39_Witness ==
    /\ \E p \in BagToSet(sr_env.to_sender) :
           /\ p.seq_num \in DOMAIN sr_sender.send_buffer
           /\ sr_sender.send_buffer[p.seq_num].acked
    /\ sr_sender.base < sr_sender.next_seq_num

\* C40: the rdt2.1 sender ignores an intact NAK whose seq differs from its
\* current bit: for every such NAK on its way to a sender that waits for a
\* response, the sender sends nothing, keeps its bit and its counters, and
\* goes on waiting.
C40_RDT21_WrongNakIgnored ==
    \A p \in BagToSet(rdt21_env.to_sender) :
        /\ rdt21_sender.waiting
        /\ p.type = NAK
        /\ p.seq_num # rdt21_sender.seq_num
        => RDT21Sender_on_response(rdt21_sender, p)
               = [snd |-> rdt21_sender, out |-> <<>>]

====
